---- MODULE Spec2Model ----
(***************************************************************************)
(* The log-structured key/value engine KvStore of talent-plan              *)
(* (courses/rust/projects): the single-threaded engine of project-2 and    *)
(* project-3 and the lock-guarded engine of project-4.                     *)
(*                                                                         *)
(* A segment file is the sequence of the records written to it; a record   *)
(* stands for its MessagePack bytes and EncLen gives how many there are,   *)
(* so offsets, lengths and the compaction threshold are real byte counts.  *)
(* The BufWriter of the active segment keeps its own position and the      *)
(* number of bytes it still holds in memory; a reader sees only the bytes  *)
(* that have left the buffer.                                              *)
(***************************************************************************)
EXTENDS Integers, Sequences, FiniteSets, TLC

(* ------------------------------ bounds -------------------------------- *)
Keys == {"a", "b"}
Values == {"x", "y", "G"}
\* byte length of the long value "G": one record of it exceeds the threshold
BigValueLen == 1048576
\* a write is taken only while the active segment holds fewer records
MaxRecs == 3
\* a write is taken only while the active segment id is below this
MaxLog == 2
\* threads that share clones of one KvStore (project-4)
Threads == {1, 2}
\* a thread starts a write only while the active segment holds fewer records
MaxThreadRecs == 2
\* the values the threads write
ThreadValues == {"x", "G"}
\* the values written in the runs in which the process stops
CrashValues == {"x", "G"}
\* the values written in the runs that meet the threshold exactly
EdgeValues == {"x", "G", "T"}
\* the connections clients make to the server
Conns == {1, 2, 3}
\* the byte streams the clients send: an encoded Request, or bytes that are
\* no Request
Requests ==
    {[op |-> "get", key |-> "a", value |-> ""],
     [op |-> "set", key |-> "a", value |-> "G"],
     [op |-> "remove", key |-> "a", value |-> ""],
     [op |-> "malformed", key |-> "", value |-> ""]}

(* ------------------------- program constants -------------------------- *)
COMPACTION_THRESHOLD_BYTES == 1048576
\* capacity of std::io::BufWriter::new
DEFAULT_BUF_SIZE == 8 * 1024

NoVal == "<none>"

\* byte length of the value "T": the record Set(k, "T") of a one-byte key is
\* exactly as long as the threshold
EdgeValueLen == COMPACTION_THRESHOLD_BYTES - 13

(* --------------------------- command codec ---------------------------- *)
StrLen(s) ==
    IF s = "G" THEN BigValueLen ELSE IF s = "T" THEN EdgeValueLen ELSE IF s = "" THEN 0 ELSE 1

\* MessagePack str family: fixstr, str8, str16, str32 marker plus length
StrHdr(n) == IF n < 32 THEN 1 ELSE IF n < 256 THEN 2 ELSE IF n < 65536 THEN 3 ELSE 5

EncStr(s) == StrHdr(StrLen(s)) + StrLen(s)

SetCmd(k, v) == [op |-> "Set", key |-> k, value |-> v]
RemoveCmd(k) == [op |-> "Remove", key |-> k]
\* bytes that are not the encoding of one command (a range copied from a
\* place where no record starts)
Garbage(n) == [op |-> "Garbage", len |-> n]

\* serialize: {variant: payload}, i.e. fixmap(1), the variant name, then
\* fixarray(2) of two strings for Set, one string for Remove
EncLen(cmd) ==
    IF cmd.op = "Set" THEN 1 + 4 + 1 + EncStr(cmd.key) + EncStr(cmd.value)
    ELSE IF cmd.op = "Remove" THEN 1 + 7 + EncStr(cmd.key)
    ELSE cmd.len

RECURSIVE SumLen(_, _)
\* number of bytes of the first n records of a file
SumLen(recs, n) == IF n = 0 THEN 0 ELSE SumLen(recs, n - 1) + EncLen(recs[n])

FileLen(recs) == SumLen(recs, Len(recs))

(* ------------------------------- state -------------------------------- *)
VARIABLES
    dir,                \* the directory: segment id -> records written to <id>.kvs.log
    readers,            \* ids that have a BufReader in the reader table
    writer,             \* BufWriter of the active segment: file, position, bytes held
    index,              \* key -> CommandPosition
    log_number,         \* active segment id
    uncompacted_bytes,  \* stale byte counter
    ret,                \* the last call and what it returned
    latest,             \* key -> value of the most recent successful write (NoVal: removed / never set)
    everSet,            \* keys some successful set has written
    pc,                 \* project-4: thread -> where it is in its call
    frame,              \* project-4: thread -> arguments and locals of its call
    locks,              \* project-4: mutex -> thread that holds its guard (0: none)
    poisoned,           \* project-4: mutexes whose guard was dropped by a panic
    net,                \* project-4 server: the listener, its connections, where serve is
    boot,               \* kvs-server: the kvs.engine file, the engine that serves, the engines that opened the directory
    entries,            \* directory entries that no store wrote: [name, kind]
    pool                \* project-4 SharedQueueThreadPool: the channel, the worker threads, the tasks

engineVars == <<dir, readers, writer, index, log_number, uncompacted_bytes>>
threadVars == <<pc, frame, locks, poisoned>>
vars == <<dir, readers, writer, index, log_number, uncompacted_bytes, ret, latest, everSet,
          pc, frame, locks, poisoned, net, boot, entries, pool>>

\* the KvStore value together with the directory it owns
Store == [dir |-> dir, readers |-> readers, writer |-> writer, index |-> index,
          log_number |-> log_number, uncompacted_bytes |-> uncompacted_bytes]

Restrict(f, S) == [x \in S |-> f[x]]

Perms(S) == {s \in [1..Cardinality(S) -> S] : \A x \in S : \E i \in DOMAIN s : s[i] = x}

Max(S) == CHOOSE x \in S : \A y \in S : y <= x

(* ------------------------- files and readers -------------------------- *)
\* bytes of segment id that have reached the file: everything written, less
\* what the BufWriter of that file still holds
OnDisk(st, id) ==
    FileLen(st.dir[id]) - (IF st.writer.log = id THEN st.writer.buf ELSE 0)

\* the records of segment id whose bytes are completely in the file
RECURSIVE DiskPrefix(_, _, _)
DiskPrefix(recs, n, limit) ==
    IF n = 0 THEN <<>>
    ELSE IF SumLen(recs, n) <= limit THEN SubSeq(recs, 1, n)
    ELSE DiskPrefix(recs, n - 1, limit)

DiskRecs(st, id) == DiskPrefix(st.dir[id], Len(st.dir[id]), OnDisk(st, id))

\* Command::deserialize on a reader positioned at offset of segment id:
\* the record, or op "Eof" (no byte to read for the first marker),
\* "Truncated" (the file ends inside the record) or "Garbage" (no record
\* starts there)
ReadAt(st, id, offset) ==
    LET recs == st.dir[id]
        starts == {j \in 1..Len(recs) : SumLen(recs, j - 1) = offset}
    IN  IF offset >= OnDisk(st, id) THEN [op |-> "Eof"]
        ELSE IF starts = {} THEN [op |-> "Garbage"]
        ELSE LET r == recs[Max(starts)]
             IN  IF r.op = "Garbage" THEN [op |-> "Garbage"]
                 ELSE IF offset + EncLen(r) <= OnDisk(st, id) THEN r
                 ELSE [op |-> "Truncated"]

\* BufWriter::seek / stream_position: write the buffer out, then report the
\* position
Flush(w) == [w EXCEPT !.buf = 0]

\* bytes left in the BufWriter after io::copy has pushed n bytes through it:
\* full buffers are written out, the last one stays
CopyResidue(n) == IF n = 0 THEN 0 ELSE ((n - 1) % DEFAULT_BUF_SIZE) + 1

\* a new_log_file that opens the file with truncate instead of append
new_log_file_Truncates(st, id) ==
    [st EXCEPT !.dir = (id :> <<>>) @@ st.dir,
               !.writer = [log |-> id, pos |-> 0, buf |-> 0],
               !.readers = @ \cup {id}]

\* a new_log_file that leaves the writer at the start of the file
new_log_file_AtStart(st, id) ==
    LET recs == IF id \in DOMAIN st.dir THEN st.dir[id] ELSE <<>>
    IN  [st EXCEPT !.dir = (id :> recs) @@ st.dir,
                   !.writer = [log |-> id, pos |-> 0, buf |-> 0],
                   !.readers = @ \cup {id}]

\* new_log_file: create or open <id>.kvs.log for append, seek to its end,
\* register a reader for it
new_log_file(st, id) ==
    LET recs == IF id \in DOMAIN st.dir THEN st.dir[id] ELSE <<>>
    IN  [st EXCEPT !.dir = (id :> recs) @@ st.dir,
                   !.writer = [log |-> id, pos |-> FileLen(recs), buf |-> 0],
                   !.readers = @ \cup {id}]

(* ------------------------------ replay -------------------------------- *)
\* replay that keeps the entry of a removed key
replay_command_KeepRemoved(id, idx, r, offset, bytes) ==
    IF r.op = "Set"
    THEN (r.key :> [log_number |-> id, offset |-> offset, bytes |-> bytes]) @@ idx
    ELSE idx

\* one turn of the loop of load_index: Set installs the position of the
\* record, Remove deletes the key
replay_command(id, idx, r, offset, bytes) ==
    IF r.op = "Set"
    THEN (r.key :> [log_number |-> id, offset |-> offset, bytes |-> bytes]) @@ idx
    ELSE Restrict(idx, DOMAIN idx \ {r.key})

RECURSIVE load_index(_, _, _, _)
\* load_index on segment id from record j on; end of input stops the loop
load_index(id, idx, recs, j) ==
    IF j > Len(recs) THEN idx
    ELSE LET offset == SumLen(recs, j - 1)
         IN  load_index(id, replay_command(id, idx, recs[j], offset, SumLen(recs, j) - offset),
                        recs, j + 1)

RECURSIVE ReplayFrom(_, _, _)
\* the loop of open over the sorted log numbers not below lo
ReplayFrom(d, idx, lo) ==
    LET todo == {i \in DOMAIN d : i >= lo}
    IN  IF todo = {} THEN idx
        ELSE LET id == CHOOSE i \in todo : \A j \in todo : i <= j
             IN  ReplayFrom(d, load_index(id, idx, d[id], 1), id + 1)

EmptyIndex == [k \in {} |-> 0]

\* KvStore::open on a directory with the given files
open(d) ==
    LET idx == ReplayFrom(d, EmptyIndex, 0)
        n == IF DOMAIN d = {} THEN 0 ELSE Max(DOMAIN d)
        st == [dir |-> d, readers |-> DOMAIN d, writer |-> [log |-> n, pos |-> 0, buf |-> 0],
               index |-> idx, log_number |-> n, uncompacted_bytes |-> 0]
    IN  new_log_file(st, n)

(* ---------------------------- compaction ------------------------------ *)
RECURSIVE CopyLoop(_, _, _)
\* the loop of compact over index.values_mut(), in the order the map yields
\* them: seek the old reader, repoint the entry at the writer's position,
\* copy the bytes
CopyLoop(st, order, i) ==
    IF i > Len(order) THEN st
    ELSE LET k == order[i]
             pos == st.index[k]
             w == Flush(st.writer)
             src == [st EXCEPT !.writer = w]
             got == ReadAt(src, pos.log_number, pos.offset)
             avail == IF OnDisk(src, pos.log_number) <= pos.offset THEN 0
                      ELSE IF OnDisk(src, pos.log_number) - pos.offset < pos.bytes
                           THEN OnDisk(src, pos.log_number) - pos.offset
                           ELSE pos.bytes
             copied == IF got.op \in {"Set", "Remove"} /\ EncLen(got) = pos.bytes
                       THEN <<got>>
                       ELSE IF avail = 0 THEN <<>> ELSE <<Garbage(avail)>>
             n == IF copied = <<>> THEN 0 ELSE EncLen(copied[1])
         IN  CopyLoop([st EXCEPT
                          !.index[k] = [log_number |-> st.log_number, offset |-> w.pos,
                                        bytes |-> pos.bytes],
                          !.dir[w.log] = @ \o copied,
                          !.writer = [log |-> w.log, pos |-> w.pos + n, buf |-> CopyResidue(n)]],
                      order, i + 1)

\* a compaction that leaves the old segment files and their readers
compact_KeepsStale(st, order) ==
    LET s1 == new_log_file([st EXCEPT !.log_number = @ + 1], st.log_number + 1)
        s2 == CopyLoop(s1, order, 1)
    IN  [s2 EXCEPT !.uncompacted_bytes = 0]

\* KvStore::compact (project-3, project-2)
compact(st, order) ==
    LET s1 == new_log_file([st EXCEPT !.log_number = @ + 1], st.log_number + 1)
        s2 == CopyLoop(s1, order, 1)
        stale == {i \in s2.readers : i < s2.log_number}
    IN  [s2 EXCEPT !.readers = @ \ stale,
                   !.dir = Restrict(@, DOMAIN @ \ stale),
                   !.uncompacted_bytes = 0]

(* --------------------------- engine calls ----------------------------- *)
\* a position that always names the start of the segment
SetPosition_OffsetZero(st, offset, bytes) ==
    [log_number |-> st.log_number, offset |-> 0, bytes |-> bytes]

\* a position that names the segment after the active one
SetPosition_NextLog(st, offset, bytes) ==
    [log_number |-> st.log_number + 1, offset |-> offset, bytes |-> bytes]

\* the CommandPosition set installs
SetPosition(st, offset, bytes) ==
    [log_number |-> st.log_number, offset |-> offset, bytes |-> bytes]

\* KvStore::set up to the threshold test
set_write(st, k, v) ==
    LET cmd == SetCmd(k, v)
        w == Flush(st.writer)
        offset == w.pos
        bytes == EncLen(cmd)
        old == IF k \in DOMAIN st.index THEN st.index[k].bytes ELSE 0
    IN  [st EXCEPT !.dir[w.log] = Append(@, cmd),
                   !.writer = [log |-> w.log, pos |-> w.pos + bytes, buf |-> 0],
                   !.index = (k :> SetPosition(st, offset, bytes)) @@ @,
                   !.uncompacted_bytes = @ + old]

\* a set that compacts as soon as the counter reaches the threshold
set_AtThreshold(st, k, v, order) ==
    LET s1 == set_write(st, k, v)
    IN  IF s1.uncompacted_bytes >= COMPACTION_THRESHOLD_BYTES THEN compact(s1, order) ELSE s1

\* KvStore::set
set(st, k, v, order) ==
    LET s1 == set_write(st, k, v)
    IN  IF s1.uncompacted_bytes > COMPACTION_THRESHOLD_BYTES THEN compact(s1, order) ELSE s1

\* a remove that also counts the bytes of its own Remove record
remove_write_CountsRemove(st, k) ==
    LET cmd == RemoveCmd(k)
        old == st.index[k]
    IN  [st EXCEPT !.index = Restrict(@, DOMAIN @ \ {k}),
                   !.dir[st.writer.log] = Append(@, cmd),
                   !.writer = [log |-> st.writer.log, pos |-> st.writer.pos + EncLen(cmd), buf |-> 0],
                   !.uncompacted_bytes = @ + old.bytes + EncLen(cmd)]

\* KvStore::remove of a key the index holds, up to the threshold test
remove_write(st, k) ==
    LET cmd == RemoveCmd(k)
        old == st.index[k]
    IN  [st EXCEPT !.index = Restrict(@, DOMAIN @ \ {k}),
                   !.dir[st.writer.log] = Append(@, cmd),
                   !.writer = [log |-> st.writer.log, pos |-> st.writer.pos + EncLen(cmd), buf |-> 0],
                   !.uncompacted_bytes = @ + old.bytes]

\* a remove that writes its record whether or not the index holds the key
remove_AlwaysAppends(st, k, order) ==
    IF k \in DOMAIN st.index
    THEN LET s1 == remove_write(st, k)
         IN  IF s1.uncompacted_bytes > COMPACTION_THRESHOLD_BYTES THEN compact(s1, order) ELSE s1
    ELSE [st EXCEPT !.dir[st.writer.log] = Append(@, RemoveCmd(k)),
                    !.writer = [log |-> st.writer.log,
                                pos |-> st.writer.pos + EncLen(RemoveCmd(k)), buf |-> 0]]

\* KvStore::remove
remove(st, k, order) ==
    IF k \in DOMAIN st.index
    THEN LET s1 == remove_write(st, k)
         IN  IF s1.uncompacted_bytes > COMPACTION_THRESHOLD_BYTES THEN compact(s1, order) ELSE s1
    ELSE st

remove_result(st, k) == IF k \in DOMAIN st.index THEN <<"Ok">> ELSE <<"Err", "KeyNotFound">>

\* a read that does not seek and decodes the first record of the segment
read_value_NoSeek(st, log, offset) ==
    IF log \notin st.readers THEN <<"Panic">>
    ELSE LET r == ReadAt(st, log, 0)
         IN  IF r.op = "Eof" THEN <<"Err", "IO">>
             ELSE IF r.op \in {"Truncated", "Garbage"} THEN <<"Err", "Decode">>
             ELSE IF r.op = "Set" THEN <<"Some", r.value>>
             ELSE <<"Err", "UnexpectedCommand">>

\* KvStore::get once the index has given a position: take the reader
\* (unwrap), seek, deserialize one command, keep the value of a Set
read_value(st, log, offset) ==
    IF log \notin st.readers THEN <<"Panic">>
    ELSE LET r == ReadAt(st, log, offset)
         IN  IF r.op = "Eof" THEN <<"Err", "IO">>
             ELSE IF r.op \in {"Truncated", "Garbage"} THEN <<"Err", "Decode">>
             ELSE IF r.op = "Set" THEN <<"Some", r.value>>
             ELSE <<"Err", "UnexpectedCommand">>

\* KvStore::get
get(st, k) ==
    IF k \in DOMAIN st.index
    THEN read_value(st, st.index[k].log_number, st.index[k].offset)
    ELSE <<"None">>

(* ------------------- the single-threaded engine ----------------------- *)
\* the five Arc<Mutex<_>> fields of the project-4 KvStore
Locks == {"readers", "writer", "index", "log_number", "uncompacted_bytes"}

NoFrame == [op |-> "none", key |-> "", value |-> "", offset |-> 0, bytes |-> 0,
            old |-> 0, log |-> 0, todo |-> {}, stale |-> {}]

Install(st) ==
    /\ dir' = st.dir
    /\ readers' = st.readers
    /\ writer' = st.writer
    /\ index' = st.index
    /\ log_number' = st.log_number
    /\ uncompacted_bytes' = st.uncompacted_bytes

CanWrite == Len(dir[writer.log]) < MaxRecs /\ log_number < MaxLog

\* the store a first open of a missing or empty directory returns
InitStore == open(EmptyIndex)

\* the fields of a store nobody holds
Closed(d) ==
    [dir |-> d, readers |-> {}, writer |-> [log |-> 0, pos |-> 0, buf |-> 0],
     index |-> EmptyIndex, log_number |-> 0, uncompacted_bytes |-> 0]

\* a connection nobody has made yet
NoConn == [req |-> [op |-> "none"], state |-> "new", sent |-> FALSE, accepted |-> FALSE,
           reads |-> 0, calls |-> 0, engine |-> <<"none">>, resp |-> <<>>,
           closed |-> FALSE, result |-> <<"none">>]

\* a bound listener and no client
InitNet == [conns |-> [c \in Conns |-> NoConn], backlog |-> <<>>, srv |-> "accept",
            cur |-> 0, why |-> "none"]

\* the content of a file that does not exist
NoFile == "<no file>"

\* no kvs-server has been started in the directory
InitBoot == [marker |-> NoFile, running |-> "none", opened |-> {}]

\* no SharedQueueThreadPool has been created
NoPool == [threads |-> 0, tx |-> "none", queue |-> <<>>, workers |-> <<>>, ran |-> <<>>,
           kinds |-> <<>>]

Init ==
    /\ dir = InitStore.dir
    /\ readers = InitStore.readers
    /\ writer = InitStore.writer
    /\ index = InitStore.index
    /\ log_number = InitStore.log_number
    /\ uncompacted_bytes = InitStore.uncompacted_bytes
    /\ ret = [op |-> "open", key |-> "", res |-> <<"Ok">>]
    /\ latest = [k \in Keys |-> NoVal]
    /\ everSet = {}
    /\ pc = [t \in Threads |-> "idle"]
    /\ frame = [t \in Threads |-> NoFrame]
    /\ locks = [l \in Locks |-> 0]
    /\ poisoned = {}
    /\ net = InitNet
    /\ boot = InitBoot
    /\ entries = {}
    /\ pool = NoPool

\* a directory without segment files that no store has opened yet
InitClosed ==
    /\ dir = EmptyIndex
    /\ readers = {}
    /\ writer = Closed(EmptyIndex).writer
    /\ index = EmptyIndex
    /\ log_number = 0
    /\ uncompacted_bytes = 0
    /\ ret = [op |-> "none", key |-> "", res |-> <<"none">>]
    /\ latest = [k \in Keys |-> NoVal]
    /\ everSet = {}
    /\ pc = [t \in Threads |-> "idle"]
    /\ frame = [t \in Threads |-> NoFrame]
    /\ locks = [l \in Locks |-> 0]
    /\ poisoned = {}
    /\ net = InitNet
    /\ boot = InitBoot
    /\ entries = {}
    /\ pool = NoPool

Set(k, v) ==
    /\ CanWrite
    /\ \E order \in Perms(DOMAIN index \cup {k}) : Install(set(Store, k, v, order))
    /\ ret' = [op |-> "set", key |-> k, res |-> <<"Ok">>]
    /\ latest' = [latest EXCEPT ![k] = v]
    /\ everSet' = everSet \cup {k}
    /\ UNCHANGED threadVars
    /\ UNCHANGED <<net, boot, entries, pool>>

Remove(k) ==
    /\ CanWrite
    /\ \E order \in Perms(DOMAIN index \ {k}) : Install(remove(Store, k, order))
    /\ ret' = [op |-> "remove", key |-> k, res |-> remove_result(Store, k)]
    /\ latest' = IF k \in DOMAIN index THEN [latest EXCEPT ![k] = NoVal] ELSE latest
    /\ UNCHANGED <<everSet, threadVars>>
    /\ UNCHANGED <<net, boot, entries, pool>>

Get(k) ==
    /\ ret' = [op |-> "get", key |-> k, res |-> get(Store, k)]
    /\ UNCHANGED <<engineVars, latest, everSet, threadVars>>
    /\ UNCHANGED <<net, boot, entries, pool>>

\* the owner drops the store (the BufWriter writes its buffer out) and opens
\* the directory again
Reopen ==
    /\ Install(open(dir))
    /\ ret' = [op |-> "open", key |-> "", res |-> <<"Ok">>]
    /\ UNCHANGED <<latest, everSet, threadVars>>
    /\ UNCHANGED <<net, boot, entries, pool>>

Next ==
    \/ \E k \in Keys, v \in Values : Set(k, v)
    \/ \E k \in Keys : Remove(k)
    \/ \E k \in Keys : Get(k)
    \/ Reopen

Spec == Init /\ [][Next]_vars

\* the calls of the single-threaded engine with values that bring the
\* counter to the threshold and over it
NextEdge ==
    \/ \E k \in Keys, v \in EdgeValues : Set(k, v)
    \/ \E k \in Keys : Remove(k)
    \/ \E k \in Keys : Get(k)
    \/ Reopen

SpecEdge == Init /\ [][NextEdge]_vars

TypeOK ==
    /\ readers \subseteq DOMAIN dir
    /\ writer.log \in DOMAIN dir
    /\ DOMAIN index \subseteq Keys
(* --------------------- the lock-guarded engine ------------------------ *)
\* Threads call set, get and remove on clones of one project-4 KvStore.
\* Every lock().unwrap() is a step of its own; a call keeps the guards it
\* has taken until it returns.

Held(t) == {l \in Locks : locks[l] = t}

\* a panic unwinds the thread: its guards are dropped and poison their
\* mutexes, the call never returns
Panic(t) ==
    /\ pc' = [pc EXCEPT ![t] = "panicked"]
    /\ locks' = [l \in Locks |-> IF locks[l] = t THEN 0 ELSE locks[l]]
    /\ poisoned' = poisoned \cup Held(t)

\* Mutex::lock().unwrap() by thread t, going on at next: it waits while
\* another thread holds the guard, panics on a poisoned mutex, and on a mutex
\* the thread holds itself it never returns (std: deadlock or panic)
TryLock(t, l, next) ==
    /\ locks[l] \in {0, t}
    /\ IF locks[l] = t
       THEN \/ pc' = [pc EXCEPT ![t] = "deadlocked"] /\ UNCHANGED <<locks, poisoned>>
            \/ Panic(t)
       ELSE IF l \in poisoned
       THEN Panic(t)
       ELSE /\ locks' = [locks EXCEPT ![l] = t]
            /\ pc' = [pc EXCEPT ![t] = next]
            /\ UNCHANGED poisoned

\* the call of t returns res; its guards are dropped
Return(t, res) ==
    /\ ret' = [op |-> frame[t].op, key |-> frame[t].key, res |-> res]
    /\ pc' = [pc EXCEPT ![t] = "idle"]
    /\ frame' = [frame EXCEPT ![t] = NoFrame]
    /\ locks' = [l \in Locks |-> IF locks[l] = t THEN 0 ELSE locks[l]]
    /\ UNCHANGED poisoned

Goto(t, next) == pc' = [pc EXCEPT ![t] = next]

Call(t, op, k, v) ==
    /\ pc[t] = "idle"
    /\ op \in {"set", "remove"} => Len(dir[writer.log]) < MaxThreadRecs
    /\ frame' = [frame EXCEPT ![t] = [NoFrame EXCEPT !.op = op, !.key = k, !.value = v]]
    /\ Goto(t, IF op = "set" THEN "set_lock_writer" ELSE IF op = "get" THEN "get_lock_index"
                ELSE "remove_lock_index")
    /\ UNCHANGED <<engineVars, ret, latest, everSet, locks, poisoned>>
    /\ UNCHANGED <<net, boot, entries, pool>>

\* set: let mut writer = self.writer.lock().unwrap()
SetLockWriter(t) ==
    /\ pc[t] = "set_lock_writer"
    /\ TryLock(t, "writer", "set_append")
    /\ UNCHANGED <<engineVars, ret, latest, everSet, frame>>
    /\ UNCHANGED <<net, boot, entries, pool>>

\* a serialize that goes through the BufWriter and is left in its buffer
set_append_writer_Buffered(w, cmd) ==
    [w EXCEPT !.pos = @ + EncLen(cmd), !.buf = @ + EncLen(cmd)]

\* set: the writer after stream_position, serialize into writer.get_mut()
\* (the file itself) and stream_position
set_append_writer(w, cmd) ==
    Flush([Flush(w) EXCEPT !.pos = @ + EncLen(cmd)])

\* an insert that keeps the entry a key already has
index_insert_KeepsOld(idx, k, p) ==
    IF k \in DOMAIN idx THEN idx ELSE (k :> p) @@ idx

\* HashMap::insert
index_insert(idx, k, p) == (k :> p) @@ idx

\* set: stream_position, serialize into the file, stream_position
SetAppend(t) ==
    /\ pc[t] = "set_append"
    /\ LET cmd == SetCmd(frame[t].key, frame[t].value)
           w == Flush(writer)
       IN  /\ dir' = [dir EXCEPT ![w.log] = Append(@, cmd)]
           /\ writer' = set_append_writer(writer, cmd)
           /\ frame' = [frame EXCEPT ![t].offset = w.pos, ![t].bytes = EncLen(cmd)]
    /\ Goto(t, "set_lock_index")
    /\ UNCHANGED <<readers, index, log_number, uncompacted_bytes, ret, latest, everSet,
                   locks, poisoned>>
    /\ UNCHANGED <<net, boot, entries, pool>>

\* set: let mut index = self.index.lock().unwrap()
SetLockIndex(t) ==
    /\ pc[t] = "set_lock_index"
    /\ TryLock(t, "index", "set_lock_uncompacted")
    /\ UNCHANGED <<engineVars, ret, latest, everSet, frame>>
    /\ UNCHANGED <<net, boot, entries, pool>>

\* set: let mut uncompacted_bytes = self.uncompacted_bytes.lock().unwrap()
SetLockUncompacted(t) ==
    /\ pc[t] = "set_lock_uncompacted"
    /\ TryLock(t, "uncompacted_bytes", "set_insert")
    /\ UNCHANGED <<engineVars, ret, latest, everSet, frame>>
    /\ UNCHANGED <<net, boot, entries, pool>>

\* set: index.insert with the log number read under its lock, the counter,
\* flush, the threshold test
SetInsert(t) ==
    /\ pc[t] = "set_insert"
    /\ locks["log_number"] = 0
    /\ IF "log_number" \in poisoned
       THEN /\ Panic(t)
            /\ UNCHANGED <<engineVars, ret, latest, everSet, frame>>
       ELSE LET k == frame[t].key
                old == IF k \in DOMAIN index THEN index[k].bytes ELSE 0
            IN  /\ index' = index_insert(index, k,
                                          SetPosition(Store, frame[t].offset, frame[t].bytes))
                /\ uncompacted_bytes' = uncompacted_bytes + old
                /\ writer' = Flush(writer)
                /\ latest' = [latest EXCEPT ![k] = frame[t].value]
                /\ everSet' = everSet \cup {k}
                /\ IF uncompacted_bytes + old > COMPACTION_THRESHOLD_BYTES
                   THEN /\ Goto(t, "compact_lock_log_number")
                        /\ UNCHANGED <<ret, frame, locks, poisoned>>
                   ELSE Return(t, <<"Ok">>)
                /\ UNCHANGED <<dir, readers, log_number>>
    /\ UNCHANGED <<net, boot, entries, pool>>

\* get: let index = self.index.lock().unwrap()
GetLockIndex(t) ==
    /\ pc[t] = "get_lock_index"
    /\ TryLock(t, "index", "get_lookup")
    /\ UNCHANGED <<engineVars, ret, latest, everSet, frame>>
    /\ UNCHANGED <<net, boot, entries, pool>>

\* a get that goes on to the readers whatever the index says
GetLookup_ReadsAnyway(t) ==
    /\ pc[t] = "get_lookup"
    /\ frame' = [frame EXCEPT ![t].log = log_number, ![t].offset = 0]
    /\ Goto(t, "get_lock_readers")
    /\ UNCHANGED <<ret, locks, poisoned>>
    /\ UNCHANGED <<engineVars, latest, everSet>>
    /\ UNCHANGED <<net, boot, entries, pool>>

\* get: index.get(&key)
GetLookup(t) ==
    /\ pc[t] = "get_lookup"
    /\ IF frame[t].key \in DOMAIN index
       THEN /\ frame' = [frame EXCEPT ![t].log = index[frame[t].key].log_number,
                                      ![t].offset = index[frame[t].key].offset]
            /\ Goto(t, "get_lock_readers")
            /\ UNCHANGED <<ret, locks, poisoned>>
       ELSE Return(t, <<"None">>)
    /\ UNCHANGED <<engineVars, latest, everSet>>
    /\ UNCHANGED <<net, boot, entries, pool>>

\* get: let mut readers = self.readers.lock().unwrap()
GetLockReaders(t) ==
    /\ pc[t] = "get_lock_readers"
    /\ TryLock(t, "readers", "get_read")
    /\ UNCHANGED <<engineVars, ret, latest, everSet, frame>>
    /\ UNCHANGED <<net, boot, entries, pool>>

\* get: readers.get_mut(&pos.log_number).unwrap(), seek, deserialize
GetRead(t) ==
    /\ pc[t] = "get_read"
    /\ LET res == read_value(Store, frame[t].log, frame[t].offset)
       IN  IF res = <<"Panic">>
           THEN Panic(t) /\ UNCHANGED <<ret, frame>>
           ELSE Return(t, res)
    /\ UNCHANGED <<engineVars, latest, everSet>>
    /\ UNCHANGED <<net, boot, entries, pool>>

\* remove: let mut index = self.index.lock().unwrap()
RemoveLockIndex(t) ==
    /\ pc[t] = "remove_lock_index"
    /\ TryLock(t, "index", "remove_take")
    /\ UNCHANGED <<engineVars, ret, latest, everSet, frame>>
    /\ UNCHANGED <<net, boot, entries, pool>>

\* remove: index.remove(&key)
RemoveTake(t) ==
    /\ pc[t] = "remove_take"
    /\ LET k == frame[t].key
       IN  IF k \in DOMAIN index
           THEN /\ index' = Restrict(index, DOMAIN index \ {k})
                /\ frame' = [frame EXCEPT ![t].old = index[k].bytes]
                /\ latest' = [latest EXCEPT ![k] = NoVal]
                /\ Goto(t, "remove_lock_writer")
                /\ UNCHANGED <<ret, locks, poisoned>>
           ELSE /\ Return(t, <<"Err", "KeyNotFound">>)
                /\ UNCHANGED <<index, latest>>
    /\ UNCHANGED <<dir, readers, writer, log_number, uncompacted_bytes, everSet>>
    /\ UNCHANGED <<net, boot, entries, pool>>

\* remove: let mut writer = self.writer.lock().unwrap()
RemoveLockWriter(t) ==
    /\ pc[t] = "remove_lock_writer"
    /\ TryLock(t, "writer", "remove_append")
    /\ UNCHANGED <<engineVars, ret, latest, everSet, frame>>
    /\ UNCHANGED <<net, boot, entries, pool>>

\* remove: serialize into the file, flush
RemoveAppend(t) ==
    /\ pc[t] = "remove_append"
    /\ LET cmd == RemoveCmd(frame[t].key)
       IN  /\ dir' = [dir EXCEPT ![writer.log] = Append(@, cmd)]
           /\ writer' = [Flush(writer) EXCEPT !.pos = @ + EncLen(cmd)]
    /\ Goto(t, "remove_lock_uncompacted")
    /\ UNCHANGED <<readers, index, log_number, uncompacted_bytes, ret, latest, everSet,
                   frame, locks, poisoned>>
    /\ UNCHANGED <<net, boot, entries, pool>>

\* remove: let mut uncompacted_bytes = self.uncompacted_bytes.lock().unwrap()
RemoveLockUncompacted(t) ==
    /\ pc[t] = "remove_lock_uncompacted"
    /\ TryLock(t, "uncompacted_bytes", "remove_account")
    /\ UNCHANGED <<engineVars, ret, latest, everSet, frame>>
    /\ UNCHANGED <<net, boot, entries, pool>>

\* remove: the counter and the threshold test
RemoveAccount(t) ==
    /\ pc[t] = "remove_account"
    /\ uncompacted_bytes' = uncompacted_bytes + frame[t].old
    /\ IF uncompacted_bytes + frame[t].old > COMPACTION_THRESHOLD_BYTES
       THEN /\ Goto(t, "compact_lock_log_number")
            /\ UNCHANGED <<ret, frame, locks, poisoned>>
       ELSE Return(t, <<"Ok">>)
    /\ UNCHANGED <<dir, readers, writer, index, log_number, latest, everSet>>
    /\ UNCHANGED <<net, boot, entries, pool>>

\* the body of the project-4 compact once it holds its guards: the copies
\* go into the file itself (writer.get_mut()), nothing stays in the buffer
compact_body(st, order) ==
    LET s2 == CopyLoop(st, order, 1)
        stale == {i \in s2.readers : i < s2.log_number}
    IN  [s2 EXCEPT !.writer = Flush(@),
                   !.readers = @ \ stale,
                   !.dir = Restrict(@, DOMAIN @ \ stale)]

\* one step of the project-4 compact, called by set or remove with the
\* caller's guards still held (both callers hold the writer guard, so no call
\* gets past compact_lock_writer)
Compact(t) ==
    /\ UNCHANGED <<net, boot, entries, pool>>
    /\ CASE pc[t] = "compact_lock_log_number" ->
               \* let mut log_number = self.log_number.lock().unwrap(); *log_number += 1
               /\ TryLock(t, "log_number", "compact_lock_readers")
               /\ log_number' = IF pc'[t] = "compact_lock_readers" THEN log_number + 1
                                ELSE log_number
               /\ UNCHANGED <<dir, readers, writer, index, uncompacted_bytes, ret, latest,
                              everSet, frame>>
         [] pc[t] = "compact_lock_readers" ->
               /\ TryLock(t, "readers", "compact_lock_writer")
               /\ UNCHANGED <<engineVars, ret, latest, everSet, frame>>
         [] pc[t] = "compact_lock_writer" ->
               /\ TryLock(t, "writer", "compact_new_log_file")
               /\ UNCHANGED <<engineVars, ret, latest, everSet, frame>>
         [] pc[t] = "compact_new_log_file" ->
               /\ Install(new_log_file(Store, log_number))
               /\ Goto(t, "compact_lock_index")
               /\ UNCHANGED <<ret, latest, everSet, frame, locks, poisoned>>
         [] pc[t] = "compact_lock_index" ->
               /\ TryLock(t, "index", "compact_copy")
               /\ UNCHANGED <<engineVars, ret, latest, everSet, frame>>
         [] pc[t] = "compact_copy" ->
               /\ \E order \in Perms(DOMAIN index) : Install(compact_body(Store, order))
               /\ Goto(t, "compact_lock_uncompacted")
               /\ UNCHANGED <<ret, latest, everSet, frame, locks, poisoned>>
         [] pc[t] = "compact_lock_uncompacted" ->
               /\ TryLock(t, "uncompacted_bytes", "compact_reset")
               /\ UNCHANGED <<engineVars, ret, latest, everSet, frame>>
         [] pc[t] = "compact_reset" ->
               /\ uncompacted_bytes' = 0
               /\ Return(t, <<"Ok">>)
               /\ UNCHANGED <<dir, readers, writer, index, log_number, latest, everSet>>
         [] OTHER -> FALSE

NextConc ==
    \/ \E t \in Threads, k \in Keys, v \in ThreadValues : Call(t, "set", k, v)
    \/ \E t \in Threads, k \in Keys : Call(t, "get", k, "")
    \/ \E t \in Threads, k \in Keys : Call(t, "remove", k, "")
    \/ \E t \in Threads : SetLockWriter(t)
    \/ \E t \in Threads : SetAppend(t)
    \/ \E t \in Threads : SetLockIndex(t)
    \/ \E t \in Threads : SetLockUncompacted(t)
    \/ \E t \in Threads : SetInsert(t)
    \/ \E t \in Threads : GetLockIndex(t)
    \/ \E t \in Threads : GetLookup(t)
    \/ \E t \in Threads : GetLockReaders(t)
    \/ \E t \in Threads : GetRead(t)
    \/ \E t \in Threads : RemoveLockIndex(t)
    \/ \E t \in Threads : RemoveTake(t)
    \/ \E t \in Threads : RemoveLockWriter(t)
    \/ \E t \in Threads : RemoveAppend(t)
    \/ \E t \in Threads : RemoveLockUncompacted(t)
    \/ \E t \in Threads : RemoveAccount(t)
    \/ \E t \in Threads : Compact(t)

SpecConc == Init /\ [][NextConc]_vars

(* ------------- the single-threaded engine, step by step --------------- *)
\* The calls of the project-3 engine with compact taken one turn of its
\* loops at a time. The one thread that owns the store keeps its place in
\* pc[Caller] and the entries and files its loops have still to visit in
\* frame[Caller].
Caller == 1

\* the copy loop leaves before it has visited every entry
copy_done_Early(todo) == TRUE

\* for command_pos in &mut self.index.values_mut(): no entry is left
copy_done(todo) == todo = {}

\* set up to the threshold test; it returns, or goes on into compact
SetWrite(k, v) ==
    /\ pc[Caller] = "idle"
    /\ CanWrite
    /\ LET s1 == set_write(Store, k, v)
       IN  /\ Install(s1)
           /\ IF s1.uncompacted_bytes > COMPACTION_THRESHOLD_BYTES
              THEN /\ Goto(Caller, "compact_new_log_file")
                   /\ frame' = [frame EXCEPT ![Caller] = [NoFrame EXCEPT !.op = "set", !.key = k]]
                   /\ UNCHANGED ret
              ELSE /\ ret' = [op |-> "set", key |-> k, res |-> <<"Ok">>]
                   /\ UNCHANGED <<pc, frame>>
    /\ latest' = [latest EXCEPT ![k] = v]
    /\ everSet' = everSet \cup {k}
    /\ UNCHANGED <<locks, poisoned, net, boot, entries, pool>>

\* remove up to the threshold test; it returns, or goes on into compact
RemoveWrite(k) ==
    /\ pc[Caller] = "idle"
    /\ CanWrite
    /\ IF k \notin DOMAIN index
       THEN /\ ret' = [op |-> "remove", key |-> k, res |-> <<"Err", "KeyNotFound">>]
            /\ UNCHANGED <<engineVars, latest, pc, frame>>
       ELSE LET s1 == remove_write(Store, k)
            IN  /\ Install(s1)
                /\ latest' = [latest EXCEPT ![k] = NoVal]
                /\ IF s1.uncompacted_bytes > COMPACTION_THRESHOLD_BYTES
                   THEN /\ Goto(Caller, "compact_new_log_file")
                        /\ frame' = [frame EXCEPT ![Caller] =
                                        [NoFrame EXCEPT !.op = "remove", !.key = k]]
                        /\ UNCHANGED ret
                   ELSE /\ ret' = [op |-> "remove", key |-> k, res |-> <<"Ok">>]
                        /\ UNCHANGED <<pc, frame>>
    /\ UNCHANGED <<everSet, locks, poisoned, net, boot, entries, pool>>

\* compact: self.log_number += 1; self.writer = new_log_file(...)
CompactNewLogFile ==
    /\ pc[Caller] = "compact_new_log_file"
    /\ Install(new_log_file([Store EXCEPT !.log_number = @ + 1], log_number + 1))
    /\ frame' = [frame EXCEPT ![Caller].todo = DOMAIN index]
    /\ Goto(Caller, "compact_copy")
    /\ UNCHANGED <<ret, latest, everSet, locks, poisoned, net, boot, entries, pool>>

\* compact: one turn of the copy loop, or its end, where the stale log
\* numbers are collected
CompactCopy ==
    /\ pc[Caller] = "compact_copy"
    /\ IF copy_done(frame[Caller].todo)
       THEN /\ frame' = [frame EXCEPT ![Caller].stale = {i \in readers : i < log_number}]
            /\ Goto(Caller, "compact_remove")
            /\ UNCHANGED engineVars
       ELSE \E k \in frame[Caller].todo :
               /\ Install(CopyLoop(Store, <<k>>, 1))
               /\ frame' = [frame EXCEPT ![Caller].todo = @ \ {k}]
               /\ UNCHANGED pc
    /\ UNCHANGED <<ret, latest, everSet, locks, poisoned, net, boot, entries, pool>>

\* compact: one turn of the loop over the stale log numbers (the reader is
\* removed, then the file), or its end, where the counter is reset and the
\* call returns
CompactRemove ==
    /\ pc[Caller] = "compact_remove"
    /\ IF frame[Caller].stale = {}
       THEN /\ uncompacted_bytes' = 0
            /\ ret' = [op |-> frame[Caller].op, key |-> frame[Caller].key, res |-> <<"Ok">>]
            /\ Goto(Caller, "idle")
            /\ frame' = [frame EXCEPT ![Caller] = NoFrame]
            /\ UNCHANGED <<dir, readers, writer, index, log_number>>
       ELSE \E id \in frame[Caller].stale :
               /\ readers' = readers \ {id}
               /\ dir' = Restrict(dir, DOMAIN dir \ {id})
               /\ frame' = [frame EXCEPT ![Caller].stale = @ \ {id}]
               /\ UNCHANGED <<writer, index, log_number, uncompacted_bytes, ret, pc>>
    /\ UNCHANGED <<latest, everSet, locks, poisoned, net, boot, entries, pool>>

NextSteps ==
    \/ \E k \in Keys, v \in Values : SetWrite(k, v)
    \/ \E k \in Keys : RemoveWrite(k)
    \/ CompactNewLogFile
    \/ CompactCopy
    \/ CompactRemove
    \/ \E k \in Keys : pc[Caller] = "idle" /\ Get(k)
    \/ pc[Caller] = "idle" /\ Reopen

SpecSteps == Init /\ [][NextSteps]_vars

(* ------------- threads that write keys of their own ------------------- *)
\* the thread that writes and reads key k: no other thread touches it
Owner(k) == IF k = "a" THEN 1 ELSE 2

NextDisjoint ==
    \/ \E t \in Threads, k \in Keys, v \in ThreadValues : Owner(k) = t /\ Call(t, "set", k, v)
    \/ \E t \in Threads, k \in Keys : Owner(k) = t /\ Call(t, "get", k, "")
    \/ \E t \in Threads : SetLockWriter(t)
    \/ \E t \in Threads : SetAppend(t)
    \/ \E t \in Threads : SetLockIndex(t)
    \/ \E t \in Threads : SetLockUncompacted(t)
    \/ \E t \in Threads : SetInsert(t)
    \/ \E t \in Threads : GetLockIndex(t)
    \/ \E t \in Threads : GetLookup(t)
    \/ \E t \in Threads : GetLockReaders(t)
    \/ \E t \in Threads : GetRead(t)
    \/ \E t \in Threads : Compact(t)

SpecDisjoint == Init /\ [][NextDisjoint]_vars

(* --------------- a process that stops during compaction --------------- *)
\* offsets inside the encoding of cmd where the decoder reads a marker: the
\* map, the variant name, the array, and each string of the payload
MarkerOffsets(cmd) ==
    IF cmd.op = "Set" THEN {0, 1, 5, 6, 6 + EncStr(cmd.key)}
    ELSE IF cmd.op = "Remove" THEN {0, 1, 8}
    ELSE {0}

\* the first bytes of cmd, the rest of it never reached the file
Cut(cmd, n) == [op |-> "Garbage", len |-> n, of |-> cmd]

\* the files a process that stops now leaves behind: what its BufWriter
\* still holds is lost
CrashDisk(st) ==
    [id \in DOMAIN st.dir |->
        LET recs == DiskRecs(st, id)
            tail == OnDisk(st, id) - FileLen(recs)
        IN  IF tail = 0 THEN recs
            ELSE Append(recs, Cut(st.dir[id][Len(recs) + 1], tail))]

\* the records load_index decodes before the first bytes that are no record
RECURSIVE Decodable(_, _)
Decodable(recs, j) ==
    IF j > Len(recs) \/ recs[j].op = "Garbage" THEN SubSeq(recs, 1, j - 1)
    ELSE Decodable(recs, j + 1)

\* load_index fails on this file: the input ends inside a record at a place
\* that is not a marker, or the bytes are no record
LoadFails(recs) ==
    LET n == Len(Decodable(recs, 1))
    IN  /\ n < Len(recs)
        /\ LET g == recs[n + 1]
           IN  ~(n + 1 = Len(recs) /\ "of" \in DOMAIN g /\ g.len \in MarkerOffsets(g.of))

\* KvStore::open returns an error on this directory
OpenFails(d) == \E id \in DOMAIN d : LoadFails(d[id])

\* KvStore::open on a directory whose files may end in a cut record
open_files(d) ==
    LET o == open([id \in DOMAIN d |-> Decodable(d[id], 1)])
        files == d @@ o.dir
    IN  [o EXCEPT !.dir = files, !.writer.pos = FileLen(files[o.writer.log])]

\* the store can take calls: its last open did not fail
Usable == ~(ret.op = "open_after_crash" /\ ret.res[1] = "Err")

\* a set or remove pushes the counter over the threshold and the process
\* stops inside compact: after new_log_file, after i turns of the copy loop,
\* or after the files in D have been removed; then the directory is opened
\* again
CrashInCompact(op, k, v) ==
    /\ Usable
    /\ CanWrite
    /\ op = "remove" => k \in DOMAIN index
    /\ LET s1 == IF op = "set" THEN set_write(Store, k, v) ELSE remove_write(Store, k)
           s2 == new_log_file([s1 EXCEPT !.log_number = @ + 1], s1.log_number + 1)
           stale == {i \in s2.readers : i < s2.log_number}
       IN  /\ s1.uncompacted_bytes > COMPACTION_THRESHOLD_BYTES
           /\ \E order \in Perms(DOMAIN s1.index), i \in 0..Cardinality(DOMAIN s1.index),
                 D \in SUBSET stale :
                 /\ D # {} => i = Len(order)
                 /\ LET s3 == CopyLoop(s2, SubSeq(order, 1, i), 1)
                        d == CrashDisk([s3 EXCEPT !.dir = Restrict(@, DOMAIN @ \ D)])
                    IN  /\ IF OpenFails(d)
                           THEN Install([s3 EXCEPT !.dir = d, !.readers = {},
                                                   !.index = EmptyIndex,
                                                   !.writer = [log |-> s3.writer.log,
                                                               pos |-> 0, buf |-> 0]])
                           ELSE Install(open_files(d))
                        /\ ret' = [op |-> "open_after_crash", key |-> k,
                                   res |-> IF OpenFails(d) THEN <<"Err", "Decode">>
                                           ELSE <<"Ok">>,
                                   before |-> [kk \in Keys |-> get(s1, kk)]]
    /\ latest' = [latest EXCEPT ![k] = IF op = "set" THEN v ELSE NoVal]
    /\ everSet' = IF op = "set" THEN everSet \cup {k} ELSE everSet
    /\ UNCHANGED threadVars
    /\ UNCHANGED <<net, boot, entries, pool>>

NextCrash ==
    \/ \E k \in Keys, v \in CrashValues : Usable /\ Set(k, v)
    \/ \E k \in Keys : Usable /\ Remove(k)
    \/ \E k \in Keys : Usable /\ Get(k)
    \/ Usable /\ Reopen
    \/ \E k \in Keys, v \in CrashValues : CrashInCompact("set", k, v)
    \/ \E k \in Keys : CrashInCompact("remove", k, "")

SpecCrash == Init /\ [][NextCrash]_vars

(* ------------------------- server and client ------------------------- *)
\* KvsServer::serve runs on one thread and calls the engine on it
ServerThread == 1

Entry(op) ==
    IF op = "set" THEN "set_lock_writer" ELSE IF op = "get" THEN "get_lock_index"
    ELSE "remove_lock_index"

\* impl Display for KvsError
Display(e) ==
    CASE e = "KeyNotFound" -> "Key not found"
      [] e = "UnexpectedCommand" -> "UnexpectedCommand"
      [] e = "IO" -> "IO: ..."
      [] e = "Decode" -> "Decode: ..."
      [] OTHER -> e

\* the value handle_get_request / handle_set_request / handle_remove_request
\* serialize for the engine's result res
Reply(op, res) ==
    IF res[1] = "Err"
    THEN [enum |-> IF op = "remove" THEN "RemoveResponse" ELSE "GetResponse",
          variant |-> "Err", payload |-> Display(res[2])]
    ELSE IF op = "get" THEN [enum |-> "GetResponse", variant |-> "Ok", payload |-> res]
    ELSE IF op = "set" THEN [enum |-> "SetResponse", variant |-> "Ok", payload |-> <<>>]
    ELSE [enum |-> "RemoveResponse", variant |-> "Ok", payload |-> <<>>]

\* the record on the wire: the name of the variant and its payload
Wire(reply) == [tag |-> reply.variant, payload |-> reply.payload]

\* the variants of protocol::Response
ResponseVariants == {"GetOk", "SetOk", "RemoveOk", "Err"}

\* KvsClient::get / set / remove once the request is flushed: decode one
\* Response from the bytes the server sent (none: the stream ended) and
\* match it
ClientResult(op, bytes) ==
    IF bytes = <<>> THEN <<"Err", "Decode">>
    ELSE LET w == bytes[1]
         IN  IF w.tag \notin ResponseVariants THEN <<"Err", "Decode">>
             ELSE IF w.tag = "Err" THEN <<"Err", "StringError", w.payload>>
             ELSE IF op = "get" /\ w.tag = "GetOk" THEN <<"Ok", w.payload>>
             ELSE IF op = "set" /\ w.tag = "SetOk" THEN <<"Ok", <<>>>>
             ELSE IF op = "remove" /\ w.tag = "RemoveOk" THEN <<"Ok", <<>>>>
             ELSE <<"Err", "UnexpectedResponse">>

IsWrite(req) == req.op \in {"set", "remove"}

\* write requests of connections the server has not called the engine for
PendingWrites ==
    Cardinality({c \in Conns : /\ net.conns[c].state # "new"
                               /\ IsWrite(net.conns[c].req)
                               /\ net.conns[c].calls = 0})

\* KvsClient::connect: the connection waits in the listener's queue
Connect(c, req) ==
    /\ net.conns[c].state = "new"
    /\ IsWrite(req) => Len(dir[writer.log]) + PendingWrites < MaxThreadRecs
    /\ net' = [net EXCEPT !.conns[c].state = "open", !.conns[c].req = req,
                          !.backlog = Append(@, c)]
    /\ UNCHANGED <<entries, pool, boot, engineVars, ret, latest, everSet, threadVars>>

\* the client serializes its request and flushes it
Send(c) ==
    /\ net.conns[c].state = "open"
    /\ ~net.conns[c].sent
    /\ net' = [net EXCEPT !.conns[c].sent = TRUE]
    /\ UNCHANGED <<entries, pool, boot, engineVars, ret, latest, everSet, threadVars>>

\* the client goes away before it has read a response
Disconnect(c) ==
    /\ net.conns[c].state = "open"
    /\ net' = [net EXCEPT !.conns[c].state = "gone"]
    /\ UNCHANGED <<entries, pool, boot, engineVars, ret, latest, everSet, threadVars>>

\* Response::deserialize in the client returns: the server has written its
\* response or has closed the stream
Receive(c) ==
    /\ net.conns[c].state = "open"
    /\ net.conns[c].sent
    /\ net.conns[c].resp # <<>> \/ net.conns[c].closed
    /\ net' = [net EXCEPT !.conns[c].state = "done",
                          !.conns[c].result = ClientResult(net.conns[c].req.op,
                                                           net.conns[c].resp)]
    /\ UNCHANGED <<entries, pool, boot, engineVars, ret, latest, everSet, threadVars>>

\* serve: listener.incoming() yields the next connection
Accept ==
    /\ net.srv = "accept"
    /\ net.backlog # <<>>
    /\ net' = [net EXCEPT !.srv = "read", !.cur = Head(net.backlog),
                          !.backlog = Tail(@),
                          !.conns[Head(net.backlog)].accepted = TRUE]
    /\ UNCHANGED <<entries, pool, boot, engineVars, ret, latest, everSet, threadVars>>

\* serve: Request::deserialize on the stream. It waits for the client's
\* bytes; a decode error (bytes that are no Request, or the end of the
\* stream) makes serve return the error; a Request is handed to the engine
ReadRequest ==
    /\ net.srv = "read"
    /\ LET c == net.cur
           conn == net.conns[c]
       IN  /\ conn.sent \/ conn.state = "gone"
           /\ IF conn.sent /\ conn.req.op # "malformed"
              THEN /\ net' = [net EXCEPT !.srv = "call", !.conns[c].reads = @ + 1,
                                         !.conns[c].calls = @ + 1]
                   /\ frame' = [frame EXCEPT ![ServerThread] =
                                   [NoFrame EXCEPT !.op = conn.req.op, !.key = conn.req.key,
                                                   !.value = conn.req.value]]
                   /\ Goto(ServerThread, Entry(conn.req.op))
              ELSE /\ net' = [net EXCEPT !.srv = "exited", !.why = "decode",
                                         !.conns[c].closed = TRUE]
                   /\ UNCHANGED <<pc, frame>>
    /\ UNCHANGED <<entries, pool, boot, engineVars, ret, latest, everSet, locks, poisoned>>

\* handle_*_request after the engine has returned: serialize the response
\* and flush it, then the stream is dropped at the end of the loop body. A
\* write to a client that is gone may fail, and the ? makes serve return
Respond ==
    /\ net.srv = "call"
    /\ pc[ServerThread] = "idle"
    /\ LET c == net.cur
           conn == net.conns[c]
       IN  \/ net' = [net EXCEPT !.srv = "accept", !.cur = 0,
                                 !.conns[c].engine = ret.res,
                                 !.conns[c].resp = Append(@, Wire(Reply(conn.req.op, ret.res))),
                                 !.conns[c].closed = TRUE]
           \/ /\ conn.state = "gone"
              /\ net' = [net EXCEPT !.srv = "exited", !.why = "write",
                                    !.conns[c].closed = TRUE]
    /\ UNCHANGED <<entries, pool, boot, engineVars, ret, latest, everSet, threadVars>>

\* the engine call panicked: the thread of serve unwinds and the stream is
\* dropped
ServerPanics ==
    /\ net.srv = "call"
    /\ pc[ServerThread] = "panicked"
    /\ net' = [net EXCEPT !.srv = "exited", !.why = "panic",
                          !.conns[net.cur].closed = TRUE]
    /\ UNCHANGED <<entries, pool, boot, engineVars, ret, latest, everSet, threadVars>>

NextServer ==
    \/ \E c \in Conns, req \in Requests : Connect(c, req)
    \/ \E c \in Conns : Send(c)
    \/ \E c \in Conns : Disconnect(c)
    \/ \E c \in Conns : Receive(c)
    \/ Accept
    \/ ReadRequest
    \/ Respond
    \/ ServerPanics
    \/ SetLockWriter(ServerThread)
    \/ SetAppend(ServerThread)
    \/ SetLockIndex(ServerThread)
    \/ SetLockUncompacted(ServerThread)
    \/ SetInsert(ServerThread)
    \/ GetLockIndex(ServerThread)
    \/ GetLookup(ServerThread)
    \/ GetLockReaders(ServerThread)
    \/ GetRead(ServerThread)
    \/ RemoveLockIndex(ServerThread)
    \/ RemoveTake(ServerThread)
    \/ RemoveLockWriter(ServerThread)
    \/ RemoveAppend(ServerThread)
    \/ RemoveLockUncompacted(ServerThread)
    \/ RemoveAccount(ServerThread)
    \/ Compact(ServerThread)

SpecServer == Init /\ [][NextServer]_vars

(* --------------------- opening and dropping --------------------------- *)
\* a store holds the directory: it has a reader for its active segment
IsOpen == readers # {}

\* KvStore::open on the directory
Open ==
    /\ ~IsOpen
    /\ Install(open(dir))
    /\ ret' = [op |-> "open", key |-> "", res |-> <<"Ok">>]
    /\ UNCHANGED <<latest, everSet, threadVars, net, boot, entries, pool>>

\* the owner drops the store: the BufWriter writes its buffer out and the
\* files are closed
Drop ==
    /\ IsOpen
    /\ Install(Closed(dir))
    /\ ret' = [op |-> "drop", key |-> "", res |-> <<"Ok">>]
    /\ UNCHANGED <<latest, everSet, threadVars, net, boot, entries, pool>>

\* a directory that starts without segment files and is opened, used and
\* dropped any number of times
NextOpen ==
    \/ Open
    \/ Drop
    \/ \E k \in Keys, v \in CrashValues : IsOpen /\ Set(k, v)
    \/ \E k \in Keys : IsOpen /\ Remove(k)
    \/ \E k \in Keys : IsOpen /\ Get(k)

SpecOpen == InitClosed /\ [][NextOpen]_vars

(* ----------------------- kvs-server start-up -------------------------- *)
\* enum EngineName
EngineNames == {"Kvs", "Sled"}

\* impl fmt::Display for EngineName
EngineName_fmt(e) == IF e = "Kvs" THEN "kvs" ELSE "sled"

\* impl FromStr for EngineName
EngineName_from_str(input) ==
    IF input = "kvs" THEN <<"Ok", "Kvs">>
    ELSE IF input = "sled" THEN <<"Ok", "Sled">>
    ELSE <<"Err", input>>

\* main: last_engine, None when kvs.engine does not exist; a content that
\* does not parse makes main return the error
last_engine(marker) ==
    IF marker = NoFile THEN <<"None">>
    ELSE LET parsed == EngineName_from_str(marker)
         IN  IF parsed[1] = "Ok" THEN <<"Some", parsed[2]>> ELSE <<"Err">>

\* a start-up that never refuses
Refuses_Never(last, engine) == FALSE

\* main: last_engine.is_some() && last_engine != Some(cli.engine)
Refuses(last, engine) == last[1] = "Some" /\ last # <<"Some", engine>>

\* main of kvs-server with --engine engine in the directory: read the
\* marker, quit on a different engine, write the marker, open the engine and
\* serve
Start(engine) ==
    /\ boot.running = "none"
    /\ LET last == last_engine(boot.marker)
           exit == [op |-> "start", key |-> engine, res |-> <<"Exit", 1>>]
           written == [boot EXCEPT !.marker = EngineName_fmt(engine),
                                   !.opened = @ \cup {engine}]
       IN  IF last[1] = "Err" \/ Refuses(last, engine)
           THEN /\ ret' = exit
                /\ UNCHANGED <<boot, engineVars>>
           ELSE IF engine = "Kvs" /\ OpenFails(dir)
           THEN /\ boot' = written
                /\ ret' = exit
                /\ UNCHANGED engineVars
           ELSE /\ boot' = [written EXCEPT !.running = engine]
                /\ ret' = [op |-> "start", key |-> engine, res |-> <<"Serving">>]
                /\ IF engine = "Kvs" THEN Install(open_files(dir))
                   ELSE UNCHANGED engineVars
    /\ UNCHANGED <<latest, everSet, threadVars, net, entries, pool>>

\* the server process ends: serve returned and the engine was dropped, or
\* the process was stopped and what its BufWriter held is lost
Stop ==
    /\ boot.running # "none"
    /\ \E killed \in BOOLEAN :
          Install(Closed(IF boot.running = "Kvs" /\ killed THEN CrashDisk(Store) ELSE dir))
    /\ boot' = [boot EXCEPT !.running = "none"]
    /\ ret' = [op |-> "stop", key |-> "", res |-> <<"Ok">>]
    /\ UNCHANGED <<latest, everSet, threadVars, net, entries, pool>>

\* starts and stops of kvs-server in one directory; a running kvs engine
\* takes the calls of the requests it serves
NextMain ==
    \/ \E e \in EngineNames : Start(e)
    \/ Stop
    \/ \E k \in Keys, v \in CrashValues : boot.running = "Kvs" /\ Set(k, v)
    \/ \E k \in Keys : boot.running = "Kvs" /\ Remove(k)
    \/ \E k \in Keys : boot.running = "Kvs" /\ Get(k)

SpecMain == InitClosed /\ [][NextMain]_vars

(* ------------------- what else is in the directory -------------------- *)
\* at most this many entries that no store wrote are in the directory
MaxForeign == 1

\* names are sequences of characters
Digits == <<"0", "1", "2", "3", "4", "5", "6", "7", "8", "9">>

IsDigit(c) == \E i \in 1..10 : Digits[i] = c

DigitVal(c) == (CHOOSE i \in 1..10 : Digits[i] = c) - 1

RECURSIVE fmt_u64(_)
\* format!("{}", n) of a u64
fmt_u64(n) == IF n < 10 THEN <<Digits[n + 1]>>
              ELSE fmt_u64(n \div 10) \o <<Digits[(n % 10) + 1]>>

RECURSIVE DecVal(_)
DecVal(s) == IF s = <<>> THEN 0
             ELSE 10 * DecVal(SubSeq(s, 1, Len(s) - 1)) + DigitVal(s[Len(s)])

\* u64::from_str: an optional "+", then one or more decimal digits, leading
\* zeros included
parse_u64(s) ==
    LET digits == IF s # <<>> /\ s[1] = "+" THEN Tail(s) ELSE s
    IN  IF digits # <<>> /\ \A i \in 1..Len(digits) : IsDigit(digits[i])
        THEN <<"Ok", DecVal(digits)>>
        ELSE <<"Err">>

\* fn log_path: the file name
log_path(n) == fmt_u64(n) \o <<".", "k", "v", "s", ".", "l", "o", "g">>

\* the last "." of a file name that is not its first character (0: none)
LastDot(s) ==
    LET dots == {i \in 2..Len(s) : s[i] = "."}
    IN  IF dots = {} THEN 0 ELSE Max(dots)

\* Path::extension
extension(s) == IF LastDot(s) = 0 THEN <<"None">>
                ELSE <<"Some", SubSeq(s, LastDot(s) + 1, Len(s))>>

\* Path::file_stem
file_stem(s) == IF LastDot(s) = 0 THEN s ELSE SubSeq(s, 1, LastDot(s) - 1)

ends_with(s, pat) ==
    Len(s) >= Len(pat) /\ SubSeq(s, Len(s) - Len(pat) + 1, Len(s)) = pat

RECURSIVE trim_end_matches(_, _)
\* str::trim_end_matches: every repetition of pat at the end is removed
trim_end_matches(s, pat) ==
    IF ends_with(s, pat) THEN trim_end_matches(SubSeq(s, 1, Len(s) - Len(pat)), pat)
    ELSE s

File(name) == [name |-> name, kind |-> "file"]
Directory(name) == [name |-> name, kind |-> "dir"]

\* entries somebody else may have put into the directory
ForeignEntries ==
    { File(<<"k", "v", "s", ".", "e", "n", "g", "i", "n", "e">>),
      File(<<"7", ".", "l", "o", "g">>),
      File(<<"0", "0", "7", ".", "k", "v", "s", ".", "l", "o", "g">>),
      File(<<"+", "5", ".", "k", "v", "s", ".", "l", "o", "g">>),
      File(<<"3", ".", "k", "v", "s", ".", "k", "v", "s", ".", "l", "o", "g">>),
      File(<<"0", ".", "l", "o", "g">>),
      File(<<"+", "0", ".", "k", "v", "s", ".", "l", "o", "g">>),
      File(<<"x", ".", "k", "v", "s", ".", "l", "o", "g">>),
      Directory(<<"9", ".", "k", "v", "s", ".", "l", "o", "g">>),
      Directory(<<"s", "u", "b">>) }

\* fs::read_dir: the segment files under their names and the other entries
read_dir(d, es) == {File(log_path(n)) : n \in DOMAIN d} \cup es

\* the closures of get_log_numbers on one entry: is_file and extension
\* "log", then the stem without ".kvs" parsed as u64
entry_number(e) ==
    IF e.kind = "file" /\ extension(e.name) = <<"Some", <<"l", "o", "g">>>>
    THEN parse_u64(trim_end_matches(file_stem(e.name), <<".", "k", "v", "s">>))
    ELSE <<"Err">>

RECURSIVE sort_unstable(_)
\* the numbers of a set of entries in ascending order, one per entry
sort_unstable(S) ==
    IF S = {} THEN <<>>
    ELSE LET e == CHOOSE e \in S : \A f \in S : entry_number(e)[2] <= entry_number(f)[2]
         IN  <<entry_number(e)[2]>> \o sort_unstable(S \ {e})

\* fn get_log_numbers
get_log_numbers(listing) ==
    sort_unstable({e \in listing : entry_number(e)[1] = "Ok"})

\* File::open(log_path(n)) finds a file
can_open(d, es, n) == n \in DOMAIN d \/ File(log_path(n)) \in es

RECURSIVE ReplayNumbers(_, _, _, _)
\* the loop of open over log_numbers from position i on
ReplayNumbers(d, idx, numbers, i) ==
    IF i > Len(numbers) THEN idx
    ELSE ReplayNumbers(d, load_index(numbers[i], idx, d[numbers[i]], 1), numbers, i + 1)

\* KvStore::open on a directory with the given segment files and other
\* entries: the store, or the error of the first File::open that finds no file
open_dir(d, es) ==
    LET numbers == get_log_numbers(read_dir(d, es))
        n == IF numbers = <<>> THEN 0 ELSE numbers[Len(numbers)]
        st == [dir |-> d, readers |-> {numbers[i] : i \in 1..Len(numbers)},
               writer |-> [log |-> n, pos |-> 0, buf |-> 0],
               index |-> ReplayNumbers(d, EmptyIndex, numbers, 1),
               log_number |-> n, uncompacted_bytes |-> 0]
    IN  IF \E i \in 1..Len(numbers) : ~can_open(d, es, numbers[i])
        THEN [res |-> <<"Err", "IO">>, st |-> Closed(d)]
        ELSE [res |-> <<"Ok">>, st |-> new_log_file(st, n)]

\* KvStore::open on the directory as it is
OpenDir ==
    /\ ~IsOpen
    /\ Install(open_dir(dir, entries).st)
    /\ ret' = [op |-> "open", key |-> "", res |-> open_dir(dir, entries).res]
    /\ UNCHANGED <<latest, everSet, threadVars, net, boot, entries, pool>>

\* a closed directory without segment files that holds some other entries
InitEntries ==
    /\ dir = EmptyIndex
    /\ readers = {}
    /\ writer = Closed(EmptyIndex).writer
    /\ index = EmptyIndex
    /\ log_number = 0
    /\ uncompacted_bytes = 0
    /\ ret = [op |-> "none", key |-> "", res |-> <<"none">>]
    /\ latest = [k \in Keys |-> NoVal]
    /\ everSet = {}
    /\ pc = [t \in Threads |-> "idle"]
    /\ frame = [t \in Threads |-> NoFrame]
    /\ locks = [l \in Locks |-> 0]
    /\ poisoned = {}
    /\ net = InitNet
    /\ boot = InitBoot
    /\ entries \in {es \in SUBSET ForeignEntries : Cardinality(es) <= MaxForeign}
    /\ pool = NoPool

\* the directory is opened, used and dropped any number of times
NextEntries ==
    \/ OpenDir
    \/ Drop
    \/ \E k \in Keys, v \in CrashValues : IsOpen /\ Set(k, v)
    \/ \E k \in Keys : IsOpen /\ Remove(k)
    \/ \E k \in Keys : IsOpen /\ Get(k)

SpecEntries == InitEntries /\ [][NextEntries]_vars

(* ---------------- a segment that ends inside a record ----------------- *)
\* the last record of a file is cut after one of its first MaxCut bytes or
\* before its last byte
MaxCut == 9

CutPoints(cmd) == {n \in 1..MaxCut : n < EncLen(cmd)} \cup {EncLen(cmd) - 1}

\* every file of the directory ends at a record boundary
Clean(d) == \A id \in DOMAIN d : \A j \in 1..Len(d[id]) : d[id][j].op # "Garbage"

\* while no store holds the directory, the file of segment id loses the end
\* of its last record: n bytes of the record stay
Truncate(id) ==
    /\ ~IsOpen
    /\ Clean(dir)
    /\ id \in DOMAIN dir
    /\ dir[id] # <<>>
    /\ LET last == dir[id][Len(dir[id])]
       IN  \E n \in CutPoints(last) :
              dir' = [dir EXCEPT ![id] = Append(SubSeq(@, 1, Len(@) - 1), Cut(last, n))]
    /\ ret' = [op |-> "truncate", key |-> "", res |-> <<"Ok">>]
    /\ UNCHANGED <<readers, writer, index, log_number, uncompacted_bytes>>
    /\ UNCHANGED <<latest, everSet, threadVars, net, boot, entries, pool>>

\* KvStore::open on a directory whose files may end inside a record
OpenFiles ==
    /\ ~IsOpen
    /\ IF OpenFails(dir)
       THEN /\ ret' = [op |-> "open", key |-> "", res |-> <<"Err", "Decode">>]
            /\ UNCHANGED engineVars
       ELSE /\ ret' = [op |-> "open", key |-> "", res |-> <<"Ok">>]
            /\ Install(open_files(dir))
    /\ UNCHANGED <<latest, everSet, threadVars, net, boot, entries, pool>>

\* a directory that is opened, written, dropped and, while closed, cut
NextTruncate ==
    \/ OpenFiles
    \/ Drop
    \/ \E id \in 0..MaxLog : Truncate(id)
    \/ \E k \in Keys, v \in CrashValues : IsOpen /\ Clean(dir) /\ Set(k, v)
    \/ \E k \in Keys : IsOpen /\ Clean(dir) /\ Remove(k)
    \/ \E k \in Keys : IsOpen /\ Get(k)

SpecTruncate == InitClosed /\ [][NextTruncate]_vars

(* -------------------- SharedQueueThreadPool --------------------------- *)
\* the pool is created with at most this many threads
MaxThreads == 2
\* at most this many tasks are handed to spawn
MaxTasks == 3

\* what a task does when it is called: it returns or it panics
TaskKinds == {"returns", "panics"}

\* the thread that owns the pool and calls spawn
CallerThread == 0

\* a worker thread: where it is in run_tasks and the task it holds
Worker(at, task) == [at |-> at, task |-> task]

\* SharedQueueThreadPool::new(threads): the channel and threads threads that
\* run run_tasks on a clone of the receiver
SharedQueueThreadPool_new(threads) ==
    [threads |-> threads, tx |-> "live", queue |-> <<>>,
     workers |-> [w \in 1..threads |-> Worker("recv", 0)],
     ran |-> [task \in 1..MaxTasks |-> <<>>], kinds |-> <<>>]

\* a spawn that calls the task where it stands
spawn_Inline(p, task) == [p EXCEPT !.ran[task] = Append(@, CallerThread)]

\* SharedQueueThreadPool::spawn: self.tx.send(Box::new(task)).unwrap()
spawn(p, task) == [p EXCEPT !.queue = Append(@, task)]

\* a drop that starts no thread
on_drop_Nothing(p, panicking) == p

\* impl Drop for TaskReceiver: a thread that is panicking starts a thread that
\* runs run_tasks on a clone of the receiver
on_drop(p, panicking) ==
    IF panicking THEN [p EXCEPT !.workers = Append(@, Worker("recv", 0))] ELSE p

PoolNew(threads) ==
    /\ pool.tx = "none"
    /\ pool' = SharedQueueThreadPool_new(threads)
    /\ UNCHANGED <<engineVars, ret, latest, everSet, threadVars, net, boot, entries>>

\* the owner hands a task of the given kind to spawn
PoolSpawn(kind) ==
    /\ pool.tx = "live"
    /\ Len(pool.kinds) < MaxTasks
    /\ pool' = spawn([pool EXCEPT !.kinds = Append(@, kind)], Len(pool.kinds) + 1)
    /\ UNCHANGED <<engineVars, ret, latest, everSet, threadVars, net, boot, entries>>

\* the owner drops the pool: the sender is gone
PoolDrop ==
    /\ pool.tx = "live"
    /\ pool' = [pool EXCEPT !.tx = "dropped"]
    /\ UNCHANGED <<engineVars, ret, latest, everSet, threadVars, net, boot, entries>>

\* run_tasks: rx.0.recv() returns Ok(task); recv waits while the queue is
\* empty and a sender lives
WorkerRecv(w) ==
    /\ w \in DOMAIN pool.workers
    /\ pool.workers[w].at = "recv"
    /\ pool.queue # <<>>
    /\ pool' = [pool EXCEPT !.queue = Tail(@), !.workers[w] = Worker("task", Head(pool.queue))]
    /\ UNCHANGED <<engineVars, ret, latest, everSet, threadVars, net, boot, entries>>

\* run_tasks: rx.0.recv() returns Err, the queue is empty and no sender is
\* left; the arm prints "Thread exits"
WorkerRecvErr(w) ==
    /\ w \in DOMAIN pool.workers
    /\ pool.workers[w].at = "recv"
    /\ pool.queue = <<>>
    /\ pool.tx = "dropped"
    /\ pool' = [pool EXCEPT !.workers[w] = Worker("printed", 0)]
    /\ UNCHANGED <<engineVars, ret, latest, everSet, threadVars, net, boot, entries>>

\* run_tasks: the end of the Err arm; the loop has no break, so the thread
\* calls recv again
WorkerLoop(w) ==
    /\ w \in DOMAIN pool.workers
    /\ pool.workers[w].at = "printed"
    /\ pool' = [pool EXCEPT !.workers[w] = Worker("recv", 0)]
    /\ UNCHANGED <<engineVars, ret, latest, everSet, threadVars, net, boot, entries>>

\* run_tasks: task() returns, or it panics and the thread starts to unwind
WorkerRun(w) ==
    /\ w \in DOMAIN pool.workers
    /\ pool.workers[w].at = "task"
    /\ LET task == pool.workers[w].task
       IN  pool' = [pool EXCEPT !.ran[task] = Append(@, w),
                                !.workers[w] = IF pool.kinds[task] = "panics"
                                               THEN Worker("unwinding", 0)
                                               ELSE Worker("recv", 0)]
    /\ UNCHANGED <<engineVars, ret, latest, everSet, threadVars, net, boot, entries>>

\* the unwinding thread drops its TaskReceiver and ends
WorkerUnwind(w) ==
    /\ w \in DOMAIN pool.workers
    /\ pool.workers[w].at = "unwinding"
    /\ pool' = on_drop([pool EXCEPT !.workers[w] = Worker("dead", 0)], TRUE)
    /\ UNCHANGED <<engineVars, ret, latest, everSet, threadVars, net, boot, entries>>

\* threads the pool can ever have started
WorkerIds == 1..(MaxThreads + MaxTasks)

WorkerStep(w) ==
    \/ WorkerRecv(w)
    \/ WorkerRecvErr(w)
    \/ WorkerLoop(w)
    \/ WorkerRun(w)
    \/ WorkerUnwind(w)

NextPool ==
    \/ \E threads \in 1..MaxThreads : PoolNew(threads)
    \/ \E kind \in TaskKinds : PoolSpawn(kind)
    \/ PoolDrop
    \/ \E w \in WorkerIds : WorkerRecv(w)
    \/ \E w \in WorkerIds : WorkerRecvErr(w)
    \/ \E w \in WorkerIds : WorkerLoop(w)
    \/ \E w \in WorkerIds : WorkerRun(w)
    \/ \E w \in WorkerIds : WorkerUnwind(w)

SpecPool == InitClosed /\ [][NextPool]_vars

\* the scheduler lets every thread that can take a step take one
SpecPoolFair == SpecPool /\ \A w \in WorkerIds : WF_vars(WorkerStep(w))

(* ----------------------- writes that fail ----------------------------- *)
\* KvStore::set when the second stream_position returns an I/O error: the
\* record is serialized into the BufWriter, the write of the buffer fails,
\* and `?` returns before the index is touched. It is taken for the records
\* that fit the buffer; a longer one already fails inside serialize.
set_fails(st, k, v) ==
    LET cmd == SetCmd(k, v)
        w == Flush(st.writer)
    IN  [st EXCEPT !.dir[w.log] = Append(@, cmd),
                   !.writer = [log |-> w.log, pos |-> w.pos + EncLen(cmd), buf |-> EncLen(cmd)]]

\* KvStore::remove of a key the index holds when writer.flush() returns an
\* I/O error: index.remove has run, the record is in the BufWriter, and `?`
\* returns before the counter is touched
remove_fails(st, k) ==
    LET cmd == RemoveCmd(k)
    IN  [st EXCEPT !.index = Restrict(@, DOMAIN @ \ {k}),
                   !.dir[st.writer.log] = Append(@, cmd),
                   !.writer = [log |-> st.writer.log, pos |-> st.writer.pos + EncLen(cmd),
                               buf |-> st.writer.buf + EncLen(cmd)]]

SetFails(k, v) ==
    /\ CanWrite
    /\ EncLen(SetCmd(k, v)) <= DEFAULT_BUF_SIZE
    /\ Install(set_fails(Store, k, v))
    /\ ret' = [op |-> "set", key |-> k, res |-> <<"Err", "IO">>]
    /\ UNCHANGED <<latest, everSet, threadVars, net, boot, entries, pool>>

RemoveFails(k) ==
    /\ CanWrite
    /\ k \in DOMAIN index
    /\ Install(remove_fails(Store, k))
    /\ ret' = [op |-> "remove", key |-> k, res |-> <<"Err", "IO">>]
    /\ UNCHANGED <<latest, everSet, threadVars, net, boot, entries, pool>>

\* the engine on a device whose writes fail now and then
NextFail ==
    \/ \E k \in Keys, v \in Values : Set(k, v)
    \/ \E k \in Keys : Remove(k)
    \/ \E k \in Keys : Get(k)
    \/ Reopen
    \/ \E k \in Keys, v \in Values : SetFails(k, v)
    \/ \E k \in Keys : RemoveFails(k)

SpecFail == Init /\ [][NextFail]_vars

(* --------------------- a compaction that fails ------------------------ *)
\* where one turn of the copy loop can return an I/O error
CopyFailures == {"seek", "stream_position", "copy"}

\* one turn of the copy loop of compact for the entry of k that returns an
\* error: at reader.seek nothing has changed; at writer.stream_position the
\* entry already carries the new log number; at io::copy it carries the new
\* log number and the position of the writer, and no byte has been copied
copy_fails(st, k, at) ==
    LET w == Flush(st.writer)
    IN  IF at = "seek" THEN st
        ELSE IF at = "stream_position"
        THEN [st EXCEPT !.index[k].log_number = st.log_number]
        ELSE [st EXCEPT !.index[k].log_number = st.log_number,
                        !.index[k].offset = w.pos,
                        !.writer = w]

\* where the caller stands after a compaction that failed
FailedPcs == {"failed_new_log_file", "failed_copy", "failed_remove_file"}

\* `?` hands the error of compact to the caller of set or remove
Fail(at) ==
    /\ ret' = [op |-> frame[Caller].op, key |-> frame[Caller].key,
               res |-> <<"Err", "IO">>, at |-> at]
    /\ frame' = [frame EXCEPT ![Caller] = NoFrame]
    /\ Goto(Caller, at)

\* compact: self.log_number += 1 has run and new_log_file returns an error,
\* before or after it has created the file
CompactNewLogFileFails ==
    /\ pc[Caller] = "compact_new_log_file"
    /\ log_number' = log_number + 1
    /\ \E created \in BOOLEAN :
          dir' = IF created THEN ((log_number + 1) :> <<>>) @@ dir ELSE dir
    /\ Fail("failed_new_log_file")
    /\ UNCHANGED <<readers, writer, index, uncompacted_bytes>>
    /\ UNCHANGED <<latest, everSet, locks, poisoned, net, boot, entries, pool>>

\* compact: a turn of the copy loop returns an error
CompactCopyFails ==
    /\ pc[Caller] = "compact_copy"
    /\ \E k \in frame[Caller].todo, at \in CopyFailures : Install(copy_fails(Store, k, at))
    /\ Fail("failed_copy")
    /\ UNCHANGED <<latest, everSet, locks, poisoned, net, boot, entries, pool>>

\* compact: the reader of a stale segment is removed and fs::remove_file
\* returns an error
CompactRemoveFails ==
    /\ pc[Caller] = "compact_remove"
    /\ \E id \in frame[Caller].stale : readers' = readers \ {id}
    /\ Fail("failed_remove_file")
    /\ UNCHANGED <<dir, writer, index, log_number, uncompacted_bytes>>
    /\ UNCHANGED <<latest, everSet, locks, poisoned, net, boot, entries, pool>>

\* the engine step by step, with compactions that may fail; after a failed
\* one the store takes gets
NextCompactFails ==
    \/ \E k \in Keys, v \in Values : SetWrite(k, v)
    \/ \E k \in Keys : RemoveWrite(k)
    \/ CompactNewLogFile
    \/ CompactCopy
    \/ CompactRemove
    \/ CompactNewLogFileFails
    \/ CompactCopyFails
    \/ CompactRemoveFails
    \/ \E k \in Keys : pc[Caller] \in {"idle"} \cup FailedPcs /\ Get(k)

SpecCompactFails == Init /\ [][NextCompactFails]_vars

(* ===================== properties of the engine ======================= *)
\* what a map that applies the successful writes in order holds for k
Expected(k) == IF latest[k] = NoVal THEN <<"None">> ELSE <<"Some", latest[k]>>

RECURSIVE DiskLog(_, _)
\* the records that are on disk, segment after segment in ascending id
\* order, from segment lo on
DiskLog(st, lo) ==
    LET todo == {i \in DOMAIN st.dir : i >= lo}
    IN  IF todo = {} THEN <<>>
        ELSE LET id == CHOOSE i \in todo : \A j \in todo : i <= j
             IN  DiskRecs(st, id) \o DiskLog(st, id + 1)

IsFor(r, k) == r.op \in {"Set", "Remove"} /\ r.key = k

\* the records of key k that are on disk, oldest first
KeyLog(st, k) == SelectSeq(DiskLog(st, 0), LAMBDA r : IsFor(r, k))

LatestIsRemove(st, k) ==
    KeyLog(st, k) # <<>> /\ KeyLog(st, k)[Len(KeyLog(st, k))].op = "Remove"

\* the directory as a process that opens it now would find it
DiskView(st) == [id \in DOMAIN st.dir |-> DiskRecs(st, id)]

\* C1: for every key k, whenever get(k) succeeds it returns Some(v) exactly
\* when the most recent successful write to k was set(k, v), and None when it
\* was a remove or k was never written, compactions included.
C1_GetReturnsLatestSet ==
    \A k \in Keys :
        LET g == get(Store, k)
        IN  g[1] \in {"Some", "None"} => g = Expected(k)

\* a get after a compaction returned the value of an overwritten key
C1_Witness ==
    /\ ret.op = "get"
    /\ ret.res[1] = "Some"
    /\ ret.res = Expected(ret.key)
    /\ log_number >= 1
    /\ uncompacted_bytes > 0

\* C2 as stated: after a successful remove(k) every get(k) returns None until
\* the next set(k, _), and a key absent from the index has never been set or
\* has a Remove as its latest record on disk.
C2_Original ==
    \A k \in Keys :
        /\ latest[k] = NoVal => get(Store, k) = <<"None">>
        /\ k \notin DOMAIN index => (k \notin everSet \/ LatestIsRemove(Store, k))

\* C2 amended: after a successful remove(k) every get(k) returns None until
\* the next set(k, _), and a key absent from the index has no record on disk
\* or has a Remove as its latest record on disk.
C2_RemovedStaysAbsent ==
    \A k \in Keys :
        /\ latest[k] = NoVal => get(Store, k) = <<"None">>
        /\ k \notin DOMAIN index => (KeyLog(Store, k) = <<>> \/ LatestIsRemove(Store, k))

\* a removed key is read as None after a compaction dropped its records
C2_Witness ==
    /\ ret.op = "get"
    /\ ret.res = <<"None">>
    /\ ret.key \in everSet
    /\ ret.key \notin DOMAIN index
    /\ KeyLog(Store, ret.key) = <<>>
    /\ log_number >= 1

ReplayOfWrittenGivesIndex ==
    ReplayFrom(dir, EmptyIndex, 0) = index
\* C3: a remove of a key the index does not hold returns KeyNotFound and
\* changes nothing: no record is appended, and the index, the reader table,
\* the writer, the active segment id and the counter stay as they were
\* (a call of the single-threaded engine, or the step of a project-4 thread
\* that finds the key absent).
C3_RemoveAbsentChangesNothing ==
    [][/\ (UNCHANGED pc /\ ret'.op = "remove" /\ ret'.key \notin DOMAIN index)
            => (ret'.res = <<"Err", "KeyNotFound">> /\ UNCHANGED engineVars)
       /\ \A t \in Threads :
            (pc[t] = "remove_take" /\ pc'[t] # pc[t] /\ frame[t].key \notin DOMAIN index)
            => /\ ret' = [op |-> "remove", key |-> frame[t].key,
                          res |-> <<"Err", "KeyNotFound">>]
               /\ UNCHANGED engineVars]_vars

\* a remove failed on a key that had been set and removed before
C3_Witness ==
    /\ ret.op = "remove"
    /\ ret.res = <<"Err", "KeyNotFound">>
    /\ ret.key \in everSet
    /\ ret.key \notin DOMAIN index
    /\ dir[writer.log] # <<>>

\* the mutex thread t is about to lock
Wants(t) ==
    CASE pc[t] \in {"set_lock_writer", "remove_lock_writer", "compact_lock_writer"} -> "writer"
      [] pc[t] \in {"set_lock_index", "get_lock_index", "remove_lock_index",
                    "compact_lock_index"} -> "index"
      [] pc[t] \in {"set_lock_uncompacted", "remove_lock_uncompacted",
                    "compact_lock_uncompacted"} -> "uncompacted_bytes"
      [] pc[t] \in {"set_insert", "compact_lock_log_number"} -> "log_number"
      [] pc[t] \in {"get_lock_readers", "compact_lock_readers"} -> "readers"
      [] OTHER -> "none"

InCompact(t) ==
    pc[t] \in {"compact_lock_log_number", "compact_lock_readers", "compact_lock_writer",
               "compact_new_log_file", "compact_lock_index", "compact_copy",
               "compact_lock_uncompacted", "compact_reset"}

\* t waits for a guard that another thread holds
Blocked(t) == Wants(t) # "none" /\ locks[Wants(t)] \notin {0, t}

\* C5: as long as no compaction has been triggered, threads calling set,
\* remove and get never deadlock: there is no set of threads each waiting
\* for a mutex held by a thread of the set.
C5_NoDeadlock ==
    (\A t \in Threads : ~InCompact(t) /\ pc[t] \notin {"deadlocked", "panicked"})
    => ~\E S \in SUBSET Threads :
            /\ S # {}
            /\ \A t \in S : Blocked(t) /\ locks[Wants(t)] \in S

\* C6: a set or remove that pushes the counter over the threshold runs the
\* compaction to its end and returns: the thread never locks a mutex whose
\* guard it still holds, so it neither hangs nor panics.
C6_CompactionReturns ==
    \A t \in Threads :
        /\ pc[t] \notin {"deadlocked", "panicked"}
        /\ (InCompact(t) /\ Wants(t) # "none") => locks[Wants(t)] # t

GetReturns(t) == pc[t] \in {"get_lookup", "get_read"} /\ pc'[t] = "idle"

\* a write of thread t is half done: its record is in the log and its index
\* change is not published (set), or its index change is published and its
\* record is not in the log (remove)
InWrite(t) ==
    pc[t] \in {"set_lock_index", "set_lock_uncompacted", "set_insert",
               "remove_lock_writer", "remove_append"}

\* C11: with every key written and read by one thread only, each get that
\* returns gives exactly the value its thread last set for the key (None
\* for a key the thread has not set yet), whatever the other thread does in
\* between.
C11_ReadsOwnWrites ==
    [][\A t \in Threads :
          GetReturns(t)
          => /\ Owner(frame[t].key) = t
             /\ ret'.op = "get" /\ ret'.key = frame[t].key
             /\ ret'.res = Expected(frame[t].key)]_vars

\* a thread read back the long value it had set while the other thread was
\* in the middle of a set of its own key
C11_Witness ==
    \E t \in Threads, u \in Threads :
        /\ ret.op = "get" /\ ret.res = <<"Some", "G">>
        /\ Owner(ret.key) = t /\ pc[t] = "idle"
        /\ u # t /\ pc[u] = "set_lock_index"
        /\ Len(dir[writer.log]) = 2

\* C12: the threads work on one shared state and a get sees every write
\* that is complete: what a get is about to return is the value of the
\* latest published write to the key (Some(v) of the latest set, None after
\* a remove or with no write), never an older one.
C12_ReadsSeeCompletedWrites ==
    \A t \in Threads :
        /\ (pc[t] = "get_lookup" /\ frame[t].key \notin DOMAIN index)
            => latest[frame[t].key] = NoVal
        /\ (pc[t] = "get_lookup" /\ frame[t].key \in DOMAIN index)
            => get(Store, frame[t].key) = Expected(frame[t].key)
        /\ pc[t] = "get_read"
            => read_value(Store, frame[t].log, frame[t].offset) = Expected(frame[t].key)

\* a get of one thread is about to read a key that another thread's set
\* has overwritten
C12_Witness ==
    \E t \in Threads :
        /\ pc[t] = "get_read"
        /\ frame[t].offset > 0
        /\ Len(KeyLog(Store, frame[t].key)) = 2
        /\ latest[frame[t].key] = "G"

\* C13: at most one thread at a time is in the middle of a write, and when
\* no call is in progress the index is what a replay of the log gives.
C13_WritesExclusiveAndOrdered ==
    /\ Cardinality({t \in Threads : InWrite(t)}) <= 1
    /\ (\A t \in Threads : pc[t] = "idle") => ReplayFrom(dir, EmptyIndex, 0) = index

\* C14: when set publishes the index entry of a key, the bytes the entry
\* names are already in the file and are the complete record Set(key, value)
\* of that call (a step of a project-4 thread, or a call of the
\* single-threaded engine that ran no compaction).
C14_FlushedBeforePublished ==
    [][/\ \A t \in Threads :
            (pc[t] = "set_insert" /\ index' # index)
            => LET p == index'[frame[t].key]
               IN  /\ p.offset + p.bytes <= OnDisk(Store, p.log_number)
                   /\ ReadAt(Store, p.log_number, p.offset)
                        = SetCmd(frame[t].key, frame[t].value)
       /\ (UNCHANGED pc /\ ret'.op = "set" /\ log_number' = log_number)
            => LET p == index'[ret'.key]
               IN  /\ p.offset + p.bytes <= OnDisk(Store', p.log_number)
                   /\ ReadAt(Store', p.log_number, p.offset) = SetCmd(ret'.key, latest'[ret'.key])
      ]_vars

\* a set has its record in the file and still waits for the index guard,
\* which a get of the same key holds
C14_Witness ==
    \E t \in Threads, u \in Threads :
        /\ pc[t] = "set_lock_index"
        /\ pc[u] = "get_read"
        /\ frame[u].key = frame[t].key
        /\ ReadAt(Store, writer.log, frame[t].offset) = SetCmd(frame[t].key, frame[t].value)

\* C15: gets run in parallel: a get never has to wait for the guard that
\* another get holds.
C15_ReadsInParallel ==
    \A t \in Threads, u \in Threads :
        (t # u /\ frame[t].op = "get" /\ frame[u].op = "get")
        => ~(Blocked(t) /\ locks[Wants(t)] = u)

C16_RemovedKeyIsBack ==
    ~(/\ ret.op = "open_after_crash" /\ ret.res = <<"Ok">>
      /\ \E k \in Keys : ret.before[k] = <<"None">> /\ get(Store, k)[1] = "Some")

(* ================== properties of server and client =================== *)
\* serve will do nothing more for connection c: it has dropped the stream,
\* or its engine call for c can never return
ServerDoneWith(c) ==
    \/ net.conns[c].closed
    \/ net.cur = c /\ pc[ServerThread] = "deadlocked"

\* the Response variant that answers a successful request
OkTag(op) == IF op = "get" THEN "GetOk" ELSE IF op = "set" THEN "SetOk" ELSE "RemoveOk"

\* C17: no connection has more than one Request read, one engine call or
\* one Response; and once serve is done with an accepted connection whose
\* client sent a well-formed request and is still there, it has read one
\* Request, made one engine call, written one Response and closed the stream.
C17_OneRequestOneResponse ==
    \A c \in Conns :
        LET conn == net.conns[c]
        IN  /\ conn.reads <= 1 /\ conn.calls <= 1 /\ Len(conn.resp) <= 1
            /\ (/\ conn.accepted /\ conn.sent /\ conn.req.op # "malformed"
                /\ conn.state # "gone"
                /\ ServerDoneWith(c))
               => (conn.reads = 1 /\ conn.calls = 1 /\ Len(conn.resp) = 1 /\ conn.closed)

\* C18: serve never returns because of what a client did: neither a request
\* that does not decode nor a client that is gone when the response is
\* written ends the loop.
C18_ServeSurvivesBadClients ==
    ~(net.srv = "exited" /\ net.why \in {"decode", "write"})

\* C19: the accept loop does not wait for a slow client: while the accepted
\* connection has not sent its request, no connection that has sent its
\* request is left waiting in the listener's queue.
C19_AcceptNeverWaitsForSlowClient ==
    ~(/\ net.srv = "read"
      /\ net.conns[net.cur].state = "open" /\ ~net.conns[net.cur].sent
      /\ \E i \in 1..Len(net.backlog) :
            net.conns[net.backlog[i]].state = "open" /\ net.conns[net.backlog[i]].sent)

\* C20: every response the server writes is the Response that matches the
\* request and the engine's result (GetOk with the option, SetOk, RemoveOk,
\* or Err with the display string of the error, "Key not found" for the
\* remove of an absent key), and the client that reads it returns Ok for the
\* matching Ok variant and the message for Err, never UnexpectedResponse or
\* a decode error.
C20_ResponsesMatch ==
    \A c \in Conns :
        LET conn == net.conns[c]
            op == conn.req.op
            expected == IF conn.engine[1] = "Err"
                        THEN [tag |-> "Err", payload |-> Display(conn.engine[2])]
                        ELSE [tag |-> OkTag(op),
                              payload |-> IF op = "get" THEN conn.engine ELSE <<>>]
        IN  /\ conn.resp # <<>> => conn.resp = <<expected>>
            /\ (conn.resp # <<>> /\ conn.engine = <<"Err", "KeyNotFound">>)
                => conn.resp[1].payload = "Key not found"
            /\ (conn.state = "done" /\ conn.resp # <<>>)
                => conn.result = IF expected.tag = "Err"
                                 THEN <<"Err", "StringError", expected.payload>>
                                 ELSE <<"Ok", expected.payload>>

\* C21: across the starts of kvs-server in one directory, a start that finds
\* a marker naming an engine other than the one of --engine exits non-zero,
\* opens no engine and leaves the marker as it is; every other start writes
\* the marker with the chosen engine. A marker once written never changes,
\* and every engine that has opened the directory is the one it names.
C21_MarkerGuardsEngine ==
    [][/\ ret'.op = "start" =>
            LET flag == ret'.key
            IN  IF boot.marker # NoFile /\ boot.marker # EngineName_fmt(flag)
                THEN /\ ret'.res = <<"Exit", 1>>
                     /\ boot' = boot
                     /\ UNCHANGED engineVars
                ELSE boot'.marker = EngineName_fmt(flag)
       /\ boot.marker # NoFile => boot'.marker = boot.marker
       /\ \A e \in boot'.opened : boot'.marker = EngineName_fmt(e)]_vars

\* a start with --engine sled was refused in a directory a kvs engine had
\* written records to
C21_Witness ==
    /\ ret = [op |-> "start", key |-> "Sled", res |-> <<"Exit", 1>>]
    /\ boot.marker = "kvs"
    /\ boot.opened = {"Kvs"}
    /\ boot.running = "none"
    /\ \E id \in DOMAIN dir : dir[id] # <<>>

\* the counter of the store after the accounting of a write to key k: the
\* bytes of the entry the write replaces or removes are added
Accounted(k) ==
    uncompacted_bytes + (IF k \in DOMAIN index THEN index[k].bytes ELSE 0)

\* the step ran a compaction: a new segment was made the active one and the
\* older files were removed
Compacted == log_number' = log_number + 1 /\ DOMAIN dir' = {log_number'}

\* C22: a set or a successful remove runs a compaction exactly when the
\* counter after its accounting is strictly greater than 1,048,576; when it
\* is less than or equal, the call creates and deletes no segment file (a
\* failed remove accounts nothing).
C22_CompactsOverThreshold ==
    [][ret'.op \in {"set", "remove"} =>
          LET counter == IF ret'.res = <<"Ok">> THEN Accounted(ret'.key)
                         ELSE uncompacted_bytes
          IN  /\ Compacted <=> counter > 1048576
              /\ counter <= 1048576 =>
                    /\ DOMAIN dir' = DOMAIN dir
                    /\ readers' = readers
                    /\ log_number' = log_number
                    /\ uncompacted_bytes' = counter]_vars

\* a write left the counter exactly at the threshold, in a store that had
\* compacted before
C22_Witness ==
    /\ ret.op \in {"set", "remove"}
    /\ ret.res = <<"Ok">>
    /\ uncompacted_bytes = COMPACTION_THRESHOLD_BYTES
    /\ log_number >= 1

\* the step is a set or a successful remove whose accounting put the counter
\* over the threshold
Triggers ==
    /\ ret'.op \in {"set", "remove"}
    /\ ret'.res = <<"Ok">>
    /\ Accounted(ret'.key) > COMPACTION_THRESHOLD_BYTES

\* C23: when a compaction started with active id a completes, the active id
\* is a+1, <a+1>.kvs.log is the only segment file and a+1 the only key of the
\* reader table, every index entry names segment a+1, and the counter is 0.
\* The active id never decreases, a newly created segment id is greater than
\* every id present, and the active id is the largest id of the reader table.
C23_CompactionLeavesOneSegment ==
    [][/\ Triggers =>
            /\ log_number' = log_number + 1
            /\ DOMAIN dir' = {log_number'}
            /\ readers' = {log_number'}
            /\ \A k \in DOMAIN index' : index'[k].log_number = log_number'
            /\ uncompacted_bytes' = 0
       /\ log_number' >= log_number
       /\ \A new \in DOMAIN dir' \ DOMAIN dir : \A id \in DOMAIN dir : new > id
       /\ log_number' = Max(readers')]_vars

\* a second compaction has completed with both keys in the index
C23_Witness ==
    /\ ret.op \in {"set", "remove"}
    /\ log_number = 2
    /\ DOMAIN dir = {2}
    /\ readers = {2}
    /\ DOMAIN index = Keys
    /\ uncompacted_bytes = 0

RECURSIVE SumBytes(_, _)
\* the sum of the byte lengths of the index entries of the keys in S
SumBytes(idx, S) ==
    IF S = {} THEN 0
    ELSE LET k == CHOOSE x \in S : TRUE
         IN  idx[k].bytes + SumBytes(idx, S \ {k})

\* the store with the buffer of its writer written out
Flushed(st) == [st EXCEPT !.writer = Flush(@)]

\* the active segment of the store new, which a compaction of the store old
\* has just made, is one record per indexed key and nothing else: every
\* entry names a range of it that holds the record the entry named in old
\* (the record of the write that ran the compaction, for its key), the
\* ranges do not overlap and together they are the whole file
OneRecordPerKey(old, new, written) ==
    LET id == new.log_number
        idx == new.index
    IN  /\ OnDisk(new, id) = SumBytes(idx, DOMAIN idx)
        /\ Len(DiskRecs(new, id)) = Cardinality(DOMAIN idx)
        /\ \A k \in DOMAIN idx :
              LET r == ReadAt(new, id, idx[k].offset)
              IN  /\ idx[k].log_number = id
                  /\ r.op = "Set" /\ r.key = k
                  /\ EncLen(r) = idx[k].bytes
                  /\ r = IF k = written.key THEN written
                         ELSE ReadAt(old, old.index[k].log_number, old.index[k].offset)
        /\ \A j, k \in DOMAIN idx :
              j # k => \/ idx[j].offset + idx[j].bytes <= idx[k].offset
                       \/ idx[k].offset + idx[k].bytes <= idx[j].offset

\* the record the write of this step appended
Written ==
    IF ret'.op = "set" THEN SetCmd(ret'.key, latest'[ret'.key]) ELSE RemoveCmd(ret'.key)

C24_CopiedAreTheLiveRecords ==
    [][Triggers => OneRecordPerKey(Flushed(Store), Flushed(Store'), Written)]_vars

\* C25: within one compaction no old segment file is deleted and no old
\* reader removed until every index entry has been repointed to the new
\* segment: in the step that deletes a segment or removes its reader, the
\* copy loop has visited every entry, every entry names the active segment
\* and none names the segment that goes.
C25_RepointedBeforeDeleted ==
    [][\A id \in (DOMAIN dir \ DOMAIN dir') \cup (readers \ readers') :
          /\ frame[Caller].todo = {}
          /\ \A k \in DOMAIN index :
                index[k].log_number = log_number /\ index[k].log_number # id]_vars

\* a compaction with both keys in the index has deleted the old segment
C25_Witness ==
    /\ pc[Caller] = "compact_remove"
    /\ frame[Caller].stale = {}
    /\ DOMAIN index = Keys
    /\ DOMAIN dir = {log_number}
    /\ readers = {log_number}
    /\ log_number >= 1

\* the step appended a record to the active segment
Appends == Len(dir'[writer.log]) = Len(dir[writer.log]) + 1

\* the record an appending step wrote
Appended == dir'[writer.log][Len(dir[writer.log]) + 1]

\* C26: the accounting of the writes, before the threshold is tested: a set
\* of a key the index holds adds exactly the byte length of the previous
\* entry (the length of the record it names) to the counter, a set of a new
\* key adds nothing, a successful remove adds exactly the byte length of the
\* removed entry and not the length of its Remove record; a failed remove
\* and a get leave the counter unchanged.
C26_WriteAccounting ==
    [][/\ (pc[Caller] = "idle" /\ Appends) =>
            LET k == Appended.key
            IN  IF k \in DOMAIN index
                THEN /\ uncompacted_bytes' = uncompacted_bytes + index[k].bytes
                     /\ index[k].bytes = EncLen(SetCmd(k, latest[k]))
                ELSE Appended.op = "Set" /\ uncompacted_bytes' = uncompacted_bytes
       /\ (pc'[Caller] = "idle" /\ (ret'.op = "get" \/ ret'.res[1] = "Err"))
            => uncompacted_bytes' = uncompacted_bytes]_vars

\* a remove has added the bytes of the entry it removed to a counter that an
\* overwrite had raised before
C26_Witness ==
    /\ ret = [op |-> "remove", key |-> "a", res |-> <<"Ok">>]
    /\ pc[Caller] = "idle"
    /\ dir[0] = <<SetCmd("a", "x"), SetCmd("a", "y"), RemoveCmd("a")>>
    /\ uncompacted_bytes = EncLen(SetCmd("a", "x")) + EncLen(SetCmd("a", "y"))

\* the total length of the Set records in the segment files of the store
\* that no index entry names
StaleSetBytes(st) ==
    FileLen(SelectSeq(DiskLog(Flushed(st), 0), LAMBDA r : r.op = "Set"))
        - SumBytes(st.index, DOMAIN st.index)

\* C27: open accounts, while it replays, for every Set that supersedes an
\* index entry and for every Remove of a present key: after open the counter
\* is the total length of the Set records in the replayed segments that the
\* index no longer names.
C27_OpenAccountsStale ==
    [][ret'.op = "open" => uncompacted_bytes' = StaleSetBytes(Store')]_vars

RECURSIVE SumOnDisk(_, _)
\* the total size of the segment files with the ids in S
SumOnDisk(st, S) ==
    IF S = {} THEN 0
    ELSE LET id == CHOOSE x \in S : TRUE
         IN  OnDisk(st, id) + SumOnDisk(st, S \ {id})

\* the bytes of the segment files that are not the records the index names
Reclaimable(st) == SumOnDisk(st, DOMAIN st.dir) - SumBytes(st.index, DOMAIN st.index)

C28_CounterBoundsWritten == uncompacted_bytes <= Reclaimable(Flushed(Store))

\* what C29 says of one open: on a directory without segments it yields an
\* empty store with active segment 0; on a directory with segments the
\* largest id becomes the active segment and the writer stands at the end
\* of that file; and the first record written after it starts at the length
\* the active file had
OpenPositions ==
    /\ ret'.op = "open" =>
          IF DOMAIN dir = {}
          THEN /\ index' = EmptyIndex
               /\ log_number' = 0
               /\ writer' = [log |-> 0, pos |-> 0, buf |-> 0]
               /\ readers' = {0}
               /\ \A k \in Keys : get(Store', k) = <<"None">>
          ELSE /\ log_number' = Max(DOMAIN dir)
               /\ writer' = [log |-> Max(DOMAIN dir), pos |-> FileLen(dir[Max(DOMAIN dir)]),
                             buf |-> 0]
               /\ readers' = DOMAIN dir
    /\ (ret.op = "open" /\ ret'.op = "set" /\ log_number' = log_number) =>
          /\ index'[ret'.key].log_number = log_number
          /\ index'[ret'.key].offset = OnDisk(Store, log_number)
          /\ DiskRecs(Store', log_number) = Append(DiskRecs(Store, log_number), Written)

\* C29 as stated: the above, and every open and every drop that follows an
\* open directly leaves the set of segment files and their contents
\* unchanged.
C29_Original ==
    [][/\ OpenPositions
       /\ (ret'.op = "open" \/ (ret.op = "open" /\ ret'.op = "drop"))
             => DiskView(Store') = DiskView(Store)]_vars

\* C29 amended: the above, and every open of a directory that has a segment
\* file, and every drop that follows an open directly, leaves the set of
\* segment files and their contents unchanged; the open of a directory
\* without segment files creates the empty file 0.kvs.log.
C29_OpenKeepsFiles ==
    [][/\ OpenPositions
       /\ (ret'.op = "open" /\ DOMAIN dir = {}) => dir' = (0 :> <<>>)
       /\ ((ret'.op = "open" /\ DOMAIN dir # {}) \/ (ret.op = "open" /\ ret'.op = "drop"))
             => DiskView(Store') = DiskView(Store)]_vars

\* a set has written the first record after an open of a directory whose
\* active segment, left by a compaction, already held records
C29_Witness ==
    /\ ret.op = "set"
    /\ log_number >= 1
    /\ Len(dir[log_number]) >= 2
    /\ index[ret.key].log_number = log_number
    /\ index[ret.key].offset > 0
    /\ index[ret.key].offset + index[ret.key].bytes = writer.pos

IsPrefix(s, t) == Len(s) <= Len(t) /\ SubSeq(t, 1, Len(s)) = s

\* C30: segments are append-only and one is written at a time: in every
\* step, compaction taken one loop turn at a time, a segment file that
\* exists before and after keeps its earlier content as a prefix of its
\* later content; a file that changes or is created is the segment that is
\* active at that moment, so the bytes of a sealed segment never change as
\* long as the file exists.
C30_AppendOnly ==
    [][/\ \A id \in DOMAIN dir \cap DOMAIN dir' :
            /\ IsPrefix(dir[id], dir'[id])
            /\ IsPrefix(DiskRecs(Store, id), DiskRecs(Store', id))
            /\ OnDisk(Store, id) <= OnDisk(Store', id)
            /\ (dir'[id] # dir[id] \/ OnDisk(Store', id) # OnDisk(Store, id))
                  => id = log_number' /\ id = writer'.log
       /\ \A id \in DOMAIN dir' \ DOMAIN dir : id = log_number' /\ id = writer'.log]_vars

\* a compaction is copying into the new active segment while the sealed
\* segment with its records is still there
C30_Witness ==
    /\ pc[Caller] = "compact_copy"
    /\ frame[Caller].todo # {}
    /\ dir[log_number] # <<>>
    /\ log_number - 1 \in DOMAIN dir
    /\ Len(dir[log_number - 1]) >= 2

\* C31: segment enumeration returns exactly the ids of the regular files
\* named <canonical decimal>.kvs.log, in ascending order, and an open of the
\* directory succeeds and builds the index it builds without the other
\* entries
C31_OtherEntriesAreIgnored ==
    [][(~IsOpen /\ ret'.op = "open")
          => /\ get_log_numbers(read_dir(dir, entries)) = get_log_numbers(read_dir(dir, {}))
             /\ ret'.res = <<"Ok">>
             /\ index' = open(dir).index]_vars

\* entries that are not files, do not end in ".log" or whose stem without
\* ".kvs" is not a number change neither the enumeration nor the open
C31_UnnumberedAreIgnored ==
    [][(~IsOpen /\ ret'.op = "open" /\ \A e \in entries : entry_number(e) = <<"Err">>)
          => /\ get_log_numbers(read_dir(dir, entries)) = get_log_numbers(read_dir(dir, {}))
             /\ ret'.res = <<"Ok">>
             /\ index' = open(dir).index]_vars


\* the record a file ends in was cut: n of its bytes are there
EndsInside(recs) == recs # <<>> /\ recs[Len(recs)].op = "Garbage"

\* C32: replay of segments that all end at a record boundary stops without
\* error and keeps every record decoded; when a segment ends inside a record,
\* after any proper non-empty prefix of its bytes, open fails with a Decode
\* error
C32_EndInsideARecordFails ==
    [][(~IsOpen /\ ret'.op = "open")
          => IF \E id \in DOMAIN dir : EndsInside(dir[id])
             THEN ret'.res = <<"Err", "Decode">> /\ ~IsOpen'
             ELSE ret'.res = <<"Ok">> /\ index' = open(dir).index]_vars

\* the same with the cuts that fall on a MessagePack marker taken out: a
\* file that ends inside a field of a record makes open fail, one that ends
\* at a record boundary does not
C32_EndInsideAFieldFails ==
    [][(~IsOpen /\ ret'.op = "open"
          /\ \A id \in DOMAIN dir : EndsInside(dir[id]) =>
                 dir[id][Len(dir[id])].len \notin MarkerOffsets(dir[id][Len(dir[id])].of))
          => IF \E id \in DOMAIN dir : EndsInside(dir[id])
             THEN ret'.res = <<"Err", "Decode">> /\ ~IsOpen'
             ELSE ret'.res = <<"Ok">> /\ index' = open(dir).index]_vars


\* where a thread is while it runs get
GetPcs == {"get_lock_index", "get_lookup", "get_lock_readers", "get_read"}

\* C33: get never changes state: every step of a get leaves the segment
\* files, the index, the active segment id and the uncompacted counter as
\* they are, and a get of a key that is not in the index returns None at the
\* lookup, before it takes a reader
C33_GetChangesNothing ==
    [][/\ \A t \in Threads :
             (pc[t] \in GetPcs /\ pc'[t] # pc[t])
                => /\ UNCHANGED <<dir, index, log_number, uncompacted_bytes, readers, writer>>
                   /\ (pc[t] = "get_lookup" /\ frame[t].key \notin DOMAIN index)
                         => /\ ret' = [op |-> "get", key |-> frame[t].key, res |-> <<"None">>]
                            /\ pc'[t] = "idle"
       /\ (ret'.op = "get" /\ ret' # ret /\ \A t \in Threads : pc[t] = "idle")
             => /\ UNCHANGED <<dir, index, log_number, uncompacted_bytes, readers, writer>>
                /\ ret'.key \notin DOMAIN index => ret'.res = <<"None">>]_vars

\* a get of a key that is not in the index of a store that holds other keys
\* has returned None
C33_Witness ==
    /\ ret.op = "get"
    /\ ret.key \notin DOMAIN index
    /\ ret.res = <<"None">>
    /\ DOMAIN index # {}
    /\ \E id \in DOMAIN dir : Len(dir[id]) >= 2


(* ======================= properties of the pool ======================= *)
\* the threads that ran task
RanOn(task) == IF task \in DOMAIN pool.ran THEN {pool.ran[task][i] : i \in 1..Len(pool.ran[task])}
               ELSE {}

\* how often task was called
Runs(task) == IF task \in DOMAIN pool.ran THEN Len(pool.ran[task]) ELSE 0

\* task was handed to spawn
Spawned(task) == task <= Len(pool.kinds)

\* workers that receive from the queue or run a task
Live == {w \in DOMAIN pool.workers : pool.workers[w].at \in {"recv", "task", "printed"}}

Unwinding == {w \in DOMAIN pool.workers : pool.workers[w].at = "unwinding"}

\* C34: in a pool created with threads >= 1 no task is called more than
\* once or before it was spawned, whoever calls a task is a worker thread and
\* never the caller of spawn, and under a fair scheduler every task handed to
\* spawn is eventually called
C34_EveryTaskRunsOnce ==
    /\ [](\A task \in 1..MaxTasks :
             /\ Runs(task) <= 1
             /\ Runs(task) = 1 => Spawned(task)
             /\ RanOn(task) \subseteq DOMAIN pool.workers
             /\ CallerThread \notin RanOn(task))
    /\ \A task \in 1..MaxTasks : Spawned(task) ~> (Runs(task) = 1)

\* every task the bound allows was spawned and called, one of them by a
\* thread that a panic had started
C34_Witness ==
    /\ \A task \in 1..MaxTasks : Spawned(task) /\ Runs(task) = 1
    /\ \E task \in 1..MaxTasks : \E w \in RanOn(task) : w > pool.threads

\* C35: the pool keeps its worker count across panics: the workers that
\* receive or run a task and those about to be replaced are always threads
\* many, the thread a panic unwinds is replaced by exactly one worker that
\* receives from the queue, the count returns to threads, and the tasks in
\* the queue at a panic and those spawned after it are still called
C35_PanicKeepsWorkerCount ==
    /\ [](pool.tx # "none" => Cardinality(Live) + Cardinality(Unwinding) = pool.threads)
    /\ [][\A w \in Unwinding :
             pool'.workers[w].at # "unwinding"
                => /\ pool'.workers[w].at = "dead"
                   /\ Len(pool'.workers) = Len(pool.workers) + 1
                   /\ pool'.workers[Len(pool'.workers)] = Worker("recv", 0)
                   /\ pool'.queue = pool.queue]_vars
    /\ (Unwinding # {}) ~> (Cardinality(Live) = pool.threads)
    /\ \A task \in 1..MaxTasks :
          (Spawned(task) /\ \E w \in DOMAIN pool.workers :
                               pool.workers[w].at \in {"unwinding", "dead"})
             ~> (Runs(task) = 1)

\* every first worker of a pool of MaxThreads threads has panicked and been
\* replaced, and a task spawned meanwhile was called by a replacement
C35_Witness ==
    /\ pool.threads = MaxThreads
    /\ \A w \in 1..MaxThreads : pool.workers[w].at = "dead"
    /\ Cardinality(Live) = MaxThreads
    /\ \E task \in 1..MaxTasks : \E w \in RanOn(task) : w > pool.threads

\* C36: once the pool is dropped and the queue is drained, every worker
\* thread leaves its loop and ends
C36_WorkersEndAfterDrop ==
    (pool.tx = "dropped" /\ pool.queue = <<>>)
       ~> (\A w \in DOMAIN pool.workers : pool.workers[w].at \in {"dead", "returned"})

\* the same as a property of the step: a worker whose recv returns the error
\* leaves the loop
C36_RecvErrorEndsTheLoop ==
    [][\A w \in DOMAIN pool.workers :
          (pool.workers[w].at = "recv" /\ pool'.workers[w].at # "recv"
             /\ pool.queue = <<>> /\ pool.tx = "dropped")
             => pool'.workers[w].at = "returned"]_vars


\* what get returns for each key once the store st has been dropped and its
\* directory opened again; the drop writes the buffer of the BufWriter out
\* (flushed) or fails to
GetsAfterReopen(st, flushed) ==
    LET d == IF flushed THEN st.dir ELSE CrashDisk(st)
    IN  IF OpenFails(d) THEN [k \in Keys |-> <<"Err", "open">>]
        ELSE [k \in Keys |-> get(open_files(d), k)]

\* C37: a set or remove that returns an I/O error leaves the index as it was
\* before the call, and every get on the live store returns what it returns
\* after the store is dropped and the directory opened again
C37_FailedWriteKeepsAgreement ==
    [][(ret'.op \in {"set", "remove"} /\ ret'.res = <<"Err", "IO">>)
          => /\ index' = index
             /\ \A flushed \in BOOLEAN, k \in Keys :
                   get(Store', k) = GetsAfterReopen(Store', flushed)[k]]_vars

\* the part that holds: a set that fails before its insert leaves the index
\* as it was
C37_FailedSetKeepsIndex ==
    [][(ret'.op = "set" /\ ret'.res = <<"Err", "IO">>) => index' = index]_vars


\* every entry of the index of st names a segment that has a reader and a
\* range of it that holds the Set record of its key
EntriesHold(st) ==
    \A k \in DOMAIN st.index :
       LET pos == st.index[k]
       IN  /\ pos.log_number \in st.readers
           /\ pos.log_number \in DOMAIN st.dir
           /\ LET r == ReadAt(st, pos.log_number, pos.offset)
              IN  r.op = "Set" /\ r.key = k /\ EncLen(r) = pos.bytes

\* no get on st panics or returns a value other than the last one written
NoBadGet(st) ==
    \A k \in Keys : /\ get(st, k) # <<"Panic">>
                    /\ get(st, k)[1] = "Some" => get(st, k) = Expected(k)

\* C38: after a compaction that returned an error every index entry names a
\* segment in the reader table and a range that holds its Set record, and no
\* get panics or returns a wrong value
C38_FailedCompactionKeepsEntries ==
    pc[Caller] \in FailedPcs => EntriesHold(Store) /\ NoBadGet(Store)

\* the same for the store with the buffer of its writer written out: what
\* the missing flush of compact does is left aside
C38_FailedCompactionKeepsFlushedEntries ==
    pc[Caller] \in FailedPcs => EntriesHold(Flushed(Store)) /\ NoBadGet(Flushed(Store))

\* a compaction that fails where it creates the new segment or where it
\* deletes an old file leaves entries that hold, the buffer written out
C38_FailureOutsideTheCopyKeepsEntries ==
    pc[Caller] \in {"failed_new_log_file", "failed_remove_file"}
       => EntriesHold(Flushed(Store)) /\ NoBadGet(Flushed(Store))

====
